---- MODULE Spec2Model ----
(***************************************************************************)
(* Model of pkg/parallel: the supervision Group (group.go), its panic      *)
(* capture (recover.go) and the callers that drive it.                     *)
(*                                                                         *)
(* One Group is modelled.  Every goroutine that touches the group is a     *)
(* process with a program counter: one per task slot (the Spawn call that  *)
(* creates the task, then the goroutine running Group.runTask), one for a  *)
(* caller of Exit, one for a caller of Wait, and the owner of the parent   *)
(* context.  g.mu is modelled explicitly: a critical section is a Lock     *)
(* step followed by one step that runs the section and unlocks.            *)
(***************************************************************************)
EXTENDS Integers, FiniteSets, Sequences, TLC

\* Number of task slots (Spawn calls) in one run.
MaxTasks == 2
\* Number of Group.Exit calls in one run.
MaxExitCalls == 1
\* Number of Group.Exit calls in one run of ExitSpec.
MaxExitSeq == 2
\* Number of tasks spawned into the subgroup in one run of SubSpec.
MaxSubTasks == 2
\* Number of paths requested in one call of Executor.Execute.
MaxPaths == 2
\* fn is called at most MaxCalls times in a call of retry.Do.
MaxCalls == 3

Slots == 1..MaxTasks

\* build: the longest chain of commands a worker starts.
maxStack == 100

\* ---------------------------------------------------------------------
\* Error values.  A Go error is a record [kind, arg]; nil is NilErr.
\* ---------------------------------------------------------------------
NilErr == [kind |-> "nil", arg |-> ""]
\* context.Canceled
Canceled == [kind |-> "context canceled", arg |-> ""]
\* context.DeadlineExceeded
DeadlineExceeded == [kind |-> "context deadline exceeded", arg |-> ""]
\* errors.New("oops<name>") returned by the body of task `name`
TaskErr(name) == [kind |-> "error", arg |-> name]
\* errors.Errorf("task %s terminated unexpectedly", name)
UnexpectedErr(name) == [kind |-> "terminated unexpectedly", arg |-> name]
\* errors.Errorf("task %s: %v", name, onExit)
BadOnExitErr(name) == [kind |-> "bad onExit", arg |-> name]

\* ---------------------------------------------------------------------
\* Panic capture (recover.go).  A panic value is any Go value: a string, an
\* error or, as an example of any other type, an int.
\* ---------------------------------------------------------------------
GoString(str) == [type |-> "string", str |-> str]
GoError(e) == [type |-> "error", err |-> e]
GoInt(n) == [type |-> "int", int |-> n]

\* A task body that is unwinding after panic(p), before the deferred
\* function of runTask has run.
Panicking(p) == [kind |-> "panicking", Value |-> p]

\* runTask: the deferred function turns a recovered panic p into
\* PanicError{Value: p}; otherwise the error of the task is returned.
runTaskMutSwallow(out) ==
    IF out.kind = "panicking" THEN NilErr ELSE out

runTask(out) ==
    IF out.kind = "panicking" THEN [kind |-> "panic", Value |-> out.Value] ELSE out

\* PanicError{Value: name}: a panic with the string name, as captured
PanicError(name) == runTask(Panicking(GoString(name)))

\* PanicError.Unwrap
Unwrap(e) ==
    IF e.kind = "panic" /\ e.Value.type = "error" THEN e.Value.err ELSE NilErr

\* strconv of the ints used as panic values
IntText(n) == <<"0", "1", "2", "3">>[n + 1]

\* Error() of the errors that are not a PanicError, as the pieces of the text
PlainErrorString(e) ==
    CASE e.kind = "error" -> <<"oops", e.arg>>
      [] e.kind = "terminated unexpectedly" -> <<"task ", e.arg, " terminated unexpectedly">>
      [] e.kind = "bad onExit" -> <<"task ", e.arg, ": ", "%v">>
      [] OTHER -> <<e.kind>>

\* fmt.Sprintf("%s", v): a string as it is, an error by its Error(), any
\* other type as %!s(type=value)
FormatS(v) ==
    CASE v.type = "string" -> <<v.str>>
      [] v.type = "error" -> PlainErrorString(v.err)
      [] OTHER -> <<"%!s(int=", IntText(v.int), ")">>

\* fmt.Sprint(v): the default rendering of the value
Sprint(v) ==
    CASE v.type = "string" -> <<v.str>>
      [] v.type = "error" -> PlainErrorString(v.err)
      [] OTHER -> <<IntText(v.int)>>

\* PanicError.Error: fmt.Sprintf("panic: %s", err.Value)
ErrorString(e) ==
    IF e.kind = "panic" THEN <<"panic: ">> \o FormatS(e.Value) ELSE PlainErrorString(e)
\* The argument of an external Exit(err) call that is an ordinary error
ExitErr == [kind |-> "error", arg |-> "exit"]

\* Task names: slot i is spawned under the name TaskName(i).
TaskName(i) == <<"t1", "t2", "t3", "t4">>[i]

\* errors.Is(err, context.Canceled)
IsCanceledMutNever(e) == FALSE
IsCanceled(e) ==
    \/ e.kind = "context canceled"
    \/ Unwrap(e).kind = "context canceled"

\* The OnExit modes a task is spawned with.
Policies == {"Continue", "Exit", "Fail"}

\* Lock holders of g.mu: 0 is unlocked, a slot number is the Spawn/runTask
\* of that slot, ExitCaller and DoneCaller are the callers of Exit and Done.
Unlocked == 0
ExitCaller == 0 - 1
DoneCaller == 0 - 2

VARIABLES
    mu,          \* g.mu: Unlocked or the holder
    running,     \* g.running
    done,        \* g.done: identity of the current channel
    chans,       \* number of channels made so far (fresh identities)
    closedChans, \* the channels that have been closed
    closing,     \* g.closing
    err,         \* g.err
    ctxErr,      \* g.ctx.Err(): NilErr while g.ctx is not done
    cancelCalls, \* number of g.cancel() calls made by Group.exit
    parentErr,   \* Err() of the context NewGroup was given
    task,        \* per slot: [pc, onExit, res]
    exitPc,      \* the Exit caller: "idle" or "locked"
    exitArg,     \* err argument of the Exit call in progress
    exitCalls,   \* Exit calls made so far
    waitPc,      \* the Wait caller: "idle", "doneLocked", "recv", "read", "returned"
    waitCh,      \* the channel Done() returned to Wait
    waitRes,     \* what Wait returned
    waitSeen,    \* slots whose Spawn had counted when Wait fetched the gate
    sub,         \* the group NewSubgroup nests in the task of slot SubSlot
    exe,         \* one call of build Executor.Execute
    nextTaskID,  \* the package counter, as the distance from its initial value
    taskIDs,     \* the ids allocated so far, in allocation order: [group, slot, id]
    rt           \* one call of retry.Do

vars == <<mu, running, done, chans, closedChans, closing, err, ctxErr,
          cancelCalls, parentErr, task, exitPc, exitArg, exitCalls,
          waitPc, waitCh, waitRes, waitSeen, sub, exe, nextTaskID, taskIDs, rt>>

idVars == <<nextTaskID, taskIDs>>

\* atomic.AddInt64(&nextTaskID, delta): the counter is read, incremented
\* and written in one step, and the new value is returned.  The int64
\* counter starts at 0x0bace1d000000000 and cannot wrap within any number
\* of Spawn calls considered here.
AddInt64MutLoad(v, delta) == v

AddInt64(v, delta) == v + delta
groupVars == <<running, done, chans, closedChans, closing, err, ctxErr, cancelCalls>>
exitVars == <<exitPc, exitArg, exitCalls>>
waitVars == <<waitPc, waitCh, waitRes, waitSeen>>

\* The diagnostics g.log.Debug writes for a task: "Task spawned", and
\* "Task finished with error" or "Task finished successfully", which are
\* one event here.
LogSpawned == "Task spawned"
LogFinished == "Task finished"

\* A task is [pc, onExit, res, log]: where its Spawn call or goroutine
\* is, its policy, what its body returned, and the diagnostics logged for
\* it so far, in order.
NewTask == [pc |-> "new", onExit |-> "Continue", res |-> NilErr, log |-> <<>>]
\* A slot whose goroutine has ended: its arguments and result are gone,
\* its diagnostics stay in the log.
DoneTask ==
    [pc |-> "done", onExit |-> "Continue", res |-> NilErr,
     log |-> <<LogSpawned, LogFinished>>]

\* Tasks of the subgroup.
SubSlots == 1..MaxSubTasks

\* The subgroup before NewSubgroup's task has called NewGroup.  pc is the
\* position of the subgroup's task in the parent: "none", then inside
\* Complete "select", "wait", "recv", "read", "ret", and "returned".
NoSub ==
    [pc |-> "none", running |-> 0, done |-> 0, chans |-> 1, closedChans |-> {0},
     closing |-> FALSE, err |-> NilErr, ctxErr |-> NilErr, cancelCalls |-> 0,
     task |-> [j \in SubSlots |-> NewTask],
     waitCh |-> 0, waitRes |-> NilErr, waitSeen |-> {}]

\* build Executor.Execute before it is called.  pc is "idle", "running"
\* or "returned"; cancelled tells whether ctx was cancelled when Execute
\* was called; frames is the chain of depsFunc calls in progress, the
\* innermost last, each with the worker it started.
NoExe ==
    [pc |-> "idle", paths |-> <<>>, cancelled |-> FALSE, ctxErr |-> NilErr,
     executed |-> {}, stack |-> {},
     errChan |-> <<>>, frames |-> <<>>, started |-> <<>>, report |-> <<>>,
     result |-> NilErr]

\* retry.Do before it is called.  pc is "idle", "call" (about to call
\* fn), "matched" (r2.err was found to be the context's error), "select"
\* (in the select after a retryable error), "returned" or "panicked";
\* ctxErr is ctx.Err(); r is r.err, NilErr while r is the zero
\* RetryableError; r2 is r2.err of the round; results are the values fn
\* has returned.
NoRetry ==
    [pc |-> "idle", ctxErr |-> NilErr, r |-> NilErr, r2 |-> NilErr,
     results |-> <<>>, result |-> NilErr]

\* NewGroup: g.ctx derived from a live parent, g.done made and closed.
InitMutDoneOpen ==
    /\ mu = Unlocked
    /\ running = 0
    /\ done = 0
    /\ chans = 1
    /\ closedChans = {}
    /\ closing = FALSE
    /\ err = NilErr
    /\ ctxErr = NilErr
    /\ cancelCalls = 0
    /\ parentErr = NilErr
    /\ task = [i \in Slots |-> NewTask]
    /\ exitPc = "idle"
    /\ exitArg = NilErr
    /\ exitCalls = 0
    /\ waitPc = "idle"
    /\ waitCh = 0
    /\ waitRes = NilErr
    /\ waitSeen = {}
    /\ sub = NoSub
    /\ exe = NoExe
    /\ nextTaskID = 0
    /\ taskIDs = <<>>
    /\ rt = NoRetry

Init ==
    /\ mu = Unlocked
    /\ running = 0
    /\ done = 0
    /\ chans = 1
    /\ closedChans = {0}
    /\ closing = FALSE
    /\ err = NilErr
    /\ ctxErr = NilErr
    /\ cancelCalls = 0
    /\ parentErr = NilErr
    /\ task = [i \in Slots |-> NewTask]
    /\ exitPc = "idle"
    /\ exitArg = NilErr
    /\ exitCalls = 0
    /\ waitPc = "idle"
    /\ waitCh = 0
    /\ waitRes = NilErr
    /\ waitSeen = {}
    /\ sub = NoSub
    /\ exe = NoExe
    /\ nextTaskID = 0
    /\ taskIDs = <<>>
    /\ rt = NoRetry

\* ---------------------------------------------------------------------
\* Group.exit, as a function of the fields it reads and writes.
\* ---------------------------------------------------------------------
GroupState == [err |-> err, closing |-> closing, ctxErr |-> ctxErr, cancelCalls |-> cancelCalls]

\* g.cancel(): the first cancellation of g.ctx sets its Err to Canceled.
cancel(g) ==
    [g EXCEPT !.ctxErr = IF g.ctxErr = NilErr THEN Canceled ELSE g.ctxErr,
              !.cancelCalls = g.cancelCalls + 1]

exitMutOverwrite(g, e) ==
    IF g.closing /\ IsCanceled(e)
    THEN g
    ELSE LET g1 == [g EXCEPT !.err = e]
             g2 == [g1 EXCEPT !.closing = TRUE]
         IN IF ~g.closing THEN cancel(g2) ELSE g1

exitMutNoCancel(g, e) ==
    IF g.closing /\ IsCanceled(e)
    THEN g
    ELSE [g EXCEPT !.err = IF g.err = NilErr THEN e ELSE g.err]

exitMutFirstOnly(g, e) ==
    IF g.closing
    THEN g
    ELSE cancel([g EXCEPT !.err = e, !.closing = TRUE])

exitMutNoiseAlways(g, e) ==
    IF IsCanceled(e)
    THEN g
    ELSE LET g1 == [g EXCEPT !.err = IF g.err = NilErr THEN e ELSE g.err]
             g2 == [g1 EXCEPT !.closing = TRUE]
         IN IF ~g.closing THEN cancel(g2) ELSE g1

exitMutCancelAgain(g, e) ==
    IF g.closing /\ IsCanceled(e)
    THEN g
    ELSE cancel([g EXCEPT !.err = IF g.err = NilErr THEN e ELSE g.err,
                          !.closing = TRUE])

exit(g, e) ==
    IF g.closing /\ IsCanceled(e)
    THEN g
    ELSE LET g1 == [g EXCEPT !.err = IF g.err = NilErr THEN e ELSE g.err]
             g2 == [g1 EXCEPT !.closing = TRUE]
         IN IF ~g.closing THEN cancel(g2) ELSE g1

\* The part of Group.runTask between Lock and running--: what a finished
\* task with result e and mode onExit does to the group.
onFinishMutAlwaysPolicy(g, name, onExit, e) ==
    IF e # NilErr THEN exit(g, e)
    ELSE CASE onExit = "Continue" -> g
           [] onExit = "Exit" -> exit(g, NilErr)
           [] onExit = "Fail" -> exit(g, UnexpectedErr(name))
           [] OTHER -> exit(g, BadOnExitErr(name))

onFinishMutContinueExits(g, name, onExit, e) ==
    IF e # NilErr THEN exit(g, e)
    ELSE IF ~g.closing
    THEN CASE onExit = "Continue" -> exit(g, NilErr)
           [] onExit = "Exit" -> exit(g, NilErr)
           [] onExit = "Fail" -> exit(g, UnexpectedErr(name))
           [] OTHER -> exit(g, BadOnExitErr(name))
    ELSE g

onFinishMutFailNil(g, name, onExit, e) ==
    IF e # NilErr THEN exit(g, e)
    ELSE IF ~g.closing
    THEN CASE onExit = "Continue" -> g
           [] onExit = "Exit" -> exit(g, NilErr)
           [] onExit = "Fail" -> exit(g, NilErr)
           [] OTHER -> exit(g, BadOnExitErr(name))
    ELSE g

onFinishMutExitNoop(g, name, onExit, e) ==
    IF e # NilErr THEN exit(g, e)
    ELSE IF ~g.closing
    THEN CASE onExit = "Continue" -> g
           [] onExit = "Exit" -> g
           [] onExit = "Fail" -> exit(g, UnexpectedErr(name))
           [] OTHER -> exit(g, BadOnExitErr(name))
    ELSE g

onFinish(g, name, onExit, e) ==
    IF e # NilErr THEN exit(g, e)
    ELSE IF ~g.closing
    THEN CASE onExit = "Continue" -> g
           [] onExit = "Exit" -> exit(g, NilErr)
           [] onExit = "Fail" -> exit(g, UnexpectedErr(name))
           [] OTHER -> exit(g, BadOnExitErr(name))
    ELSE g

SetGroup(g) ==
    /\ err' = g.err
    /\ closing' = g.closing
    /\ ctxErr' = g.ctxErr
    /\ cancelCalls' = g.cancelCalls

\* ---------------------------------------------------------------------
\* Group.Spawn
\* ---------------------------------------------------------------------
\* g.mu.Lock() in Spawn(name, onExit, task).  Slots are used in order.
SpawnLockMutRefuseClosing(i) ==
    /\ task[i].pc = "new"
    /\ ~closing
    /\ IF i = 1 THEN TRUE ELSE task[i - 1].pc # "new"
    /\ mu = Unlocked
    /\ \E p \in Policies :
         task' = [task EXCEPT ![i] = [pc |-> "spawnLocked", onExit |-> p, res |-> NilErr,
                                         log |-> <<>>]]
    /\ mu' = i
    /\ UNCHANGED <<rt, idVars, groupVars, parentErr, exe, sub, exitVars, waitVars>>

SpawnLock(i) ==
    /\ task[i].pc = "new"
    /\ IF i = 1 THEN TRUE ELSE task[i - 1].pc # "new"
    /\ mu = Unlocked
    /\ \E p \in Policies :
         task' = [task EXCEPT ![i] = [pc |-> "spawnLocked", onExit |-> p, res |-> NilErr,
                                         log |-> <<>>]]
    /\ mu' = i
    /\ UNCHANGED <<rt, idVars, groupVars, parentErr, exe, sub, exitVars, waitVars>>

SpawnCountMutNoRearm(i) ==
    /\ task[i].pc = "spawnLocked"
    /\ mu = i
    /\ running' = running + 1
    /\ mu' = Unlocked
    /\ task' = [task EXCEPT ![i].pc = "counted"]
    /\ UNCHANGED <<rt, idVars, done, chans, closedChans, closing, err, ctxErr, cancelCalls, parentErr, exe, sub,
                   exitPc, exitArg, exitCalls, waitPc, waitCh, waitRes, waitSeen>>

SpawnCountMutReopens(i) ==
    /\ task[i].pc = "spawnLocked"
    /\ mu = i
    /\ closedChans' = IF running = 0 THEN closedChans \ {done} ELSE closedChans
    /\ running' = running + 1
    /\ mu' = Unlocked
    /\ task' = [task EXCEPT ![i].pc = "counted"]
    /\ UNCHANGED <<rt, idVars, done, chans, closing, err, ctxErr, cancelCalls, parentErr, exe, sub, exitVars, waitVars>>

\* if g.running == 0 { g.done = make(chan struct{}) }; g.running++; Unlock
SpawnCount(i) ==
    /\ task[i].pc = "spawnLocked"
    /\ mu = i
    /\ IF running = 0
       THEN done' = chans /\ chans' = chans + 1
       ELSE UNCHANGED <<done, chans>>
    /\ running' = running + 1
    /\ mu' = Unlocked
    /\ task' = [task EXCEPT ![i].pc = "counted"]
    /\ UNCHANGED <<rt, idVars, closedChans, closing, err, ctxErr, cancelCalls, parentErr, exe, sub, exitVars, waitVars>>

\* The id is allocated, "Task spawned" is logged, go g.runTask(...) starts.
SpawnGo(i) ==
    /\ task[i].pc = "counted"
    /\ nextTaskID' = AddInt64(nextTaskID, 1)
    /\ taskIDs' = Append(taskIDs, [group |-> "g", slot |-> i, id |-> nextTaskID'])
    /\ task' = [task EXCEPT ![i].pc = "body", ![i].log = Append(@, LogSpawned)]
    /\ UNCHANGED <<rt, mu, groupVars, parentErr, exe, sub, exitVars, waitVars>>

\* ---------------------------------------------------------------------
\* Group.runTask
\* ---------------------------------------------------------------------
\* What the body of task i may return: nil, an error of its own, a panic
\* (returned as PanicError by the recovery wrapper), context.Canceled
\* (from any context the task cancelled itself), or ctx.Err() of the
\* group's context it was given.
TaskResults(i) ==
    {NilErr, TaskErr(TaskName(i)), PanicError(TaskName(i)), Canceled, ctxErr}

\* err := runTaskWithRecovery(ctx, ..., task), then the "Task finished"
\* diagnostic is logged with it; the goroutine goes on to g.mu.Lock().
TaskReturn(i) ==
    /\ task[i].pc = "body"
    /\ \E r \in TaskResults(i) :
         task' = [task EXCEPT ![i].pc = "finished", ![i].res = r,
                              ![i].log = Append(@, LogFinished)]
    /\ UNCHANGED <<rt, idVars, mu, groupVars, parentErr, exe, sub, exitVars, waitVars>>

\* The values a task body may panic with.
PanicValues(i) ==
    {GoString(TaskName(i)), GoError(TaskErr(TaskName(i))), GoError(Canceled), GoInt(1)}

\* The task body calls panic(p) and starts unwinding.
TaskPanics(i) ==
    /\ task[i].pc = "body"
    /\ \E p \in PanicValues(i) :
         task' = [task EXCEPT ![i].pc = "panicking", ![i].res = Panicking(p)]
    /\ UNCHANGED <<rt, idVars, mu, groupVars, parentErr, exe, sub, exitVars, waitVars>>

\* The deferred function of runTask recovers the panic; runTask returns
\* the PanicError and the "Task finished" diagnostic is logged.
Recover(i) ==
    /\ task[i].pc = "panicking"
    /\ task' = [task EXCEPT ![i].pc = "finished", ![i].res = runTask(task[i].res),
                            ![i].log = Append(@, LogFinished)]
    /\ UNCHANGED <<rt, idVars, mu, groupVars, parentErr, exe, sub, exitVars, waitVars>>

\* g.mu.Lock() in runTask
RunTaskLockMutNoWait(i) ==
    /\ task[i].pc = "finished"
    /\ mu' = i
    /\ task' = [task EXCEPT ![i].pc = "exitLocked"]
    /\ UNCHANGED <<rt, idVars, groupVars, parentErr, exe, sub, exitVars, waitVars>>

RunTaskLock(i) ==
    /\ task[i].pc = "finished"
    /\ mu = Unlocked
    /\ mu' = i
    /\ task' = [task EXCEPT ![i].pc = "exitLocked"]
    /\ UNCHANGED <<rt, idVars, groupVars, parentErr, exe, sub, exitVars, waitVars>>

RunTaskFinishMutPanicKeepsCount(i) ==
    /\ task[i].pc = "exitLocked"
    /\ mu = i
    /\ SetGroup(onFinish(GroupState, TaskName(i), task[i].onExit, task[i].res))
    /\ running' = IF task[i].res.kind = "panic" THEN running ELSE running - 1
    /\ closedChans' = IF running' = 0 THEN closedChans \cup {done} ELSE closedChans
    /\ mu' = Unlocked
    /\ task' = [task EXCEPT ![i] = DoneTask]
    /\ UNCHANGED <<rt, idVars, done, chans, parentErr, exe, sub, exitPc, exitArg, exitCalls,
                   waitPc, waitCh, waitRes, waitSeen>>

RunTaskFinishMutCloseAlways(i) ==
    /\ task[i].pc = "exitLocked"
    /\ mu = i
    /\ SetGroup(onFinish(GroupState, TaskName(i), task[i].onExit, task[i].res))
    /\ running' = running - 1
    /\ closedChans' = closedChans \cup {done}
    /\ mu' = Unlocked
    /\ task' = [task EXCEPT ![i] = DoneTask]
    /\ UNCHANGED <<rt, idVars, done, chans, parentErr, exe, sub, exitPc, exitArg, exitCalls,
                   waitPc, waitCh, waitRes, waitSeen>>

\* The critical section of runTask and the deferred Unlock.
RunTaskFinish(i) ==
    /\ task[i].pc = "exitLocked"
    /\ mu = i
    /\ SetGroup(onFinish(GroupState, TaskName(i), task[i].onExit, task[i].res))
    /\ running' = running - 1
    /\ closedChans' = IF running - 1 = 0 THEN closedChans \cup {done} ELSE closedChans
    /\ mu' = Unlocked
    /\ task' = [task EXCEPT ![i] = DoneTask]
    /\ UNCHANGED <<rt, idVars, done, chans, parentErr, exe, sub, exitVars, waitVars>>

\* ---------------------------------------------------------------------
\* Spawn after its Unlock and runTask, one step per statement.  SpawnGo is
\* SpawnLog followed by SpawnStart, TaskReturn is TaskBodyReturns followed
\* by TaskLog, RunTaskFinish is RunTaskRecord followed by RunTaskDecrement.
\* A task is then also at "logged" ("Task spawned" is written, the
\* goroutine not started), "ended" (the body has returned, "Task
\* finished" not written) or "recorded" (inside runTask's critical
\* section, after the result was applied).
\* ---------------------------------------------------------------------
\* id := atomic.AddInt64(&nextTaskID, 1); g.log.Debug(..., "Task spawned", ...)
SpawnLog(i) ==
    /\ task[i].pc = "counted"
    /\ nextTaskID' = AddInt64(nextTaskID, 1)
    /\ taskIDs' = Append(taskIDs, [group |-> "g", slot |-> i, id |-> nextTaskID'])
    /\ task' = [task EXCEPT ![i].pc = "logged", ![i].log = Append(@, LogSpawned)]
    /\ UNCHANGED <<rt, mu, groupVars, parentErr, exe, sub, exitVars, waitVars>>

\* go g.runTask(...): the goroutine starts and calls the task's body.
SpawnStart(i) ==
    /\ task[i].pc = "logged"
    /\ task' = [task EXCEPT ![i].pc = "body"]
    /\ UNCHANGED <<rt, idVars, mu, groupVars, parentErr, exe, sub, exitVars, waitVars>>

\* err := runTaskWithRecovery(ctx, ..., task): the body has ended.
TaskBodyReturnsMutExitsEarly(i) ==
    /\ task[i].pc = "body"
    /\ \E r \in TaskResults(i) :
         /\ task' = [task EXCEPT ![i].pc = "ended", ![i].res = r]
         /\ SetGroup(IF r # NilErr THEN exit(GroupState, r) ELSE GroupState)
    /\ UNCHANGED <<rt, idVars, mu, running, done, chans, closedChans, parentErr, exe, sub,
                   exitVars, waitVars>>

TaskBodyReturns(i) ==
    /\ task[i].pc = "body"
    /\ \E r \in TaskResults(i) : task' = [task EXCEPT ![i].pc = "ended", ![i].res = r]
    /\ UNCHANGED <<rt, idVars, mu, groupVars, parentErr, exe, sub, exitVars, waitVars>>

\* g.log.Debug(..., "Task finished with error" or "Task finished
\* successfully", ...)
TaskLog(i) ==
    /\ task[i].pc = "ended"
    /\ task' = [task EXCEPT ![i].pc = "finished", ![i].log = Append(@, LogFinished)]
    /\ UNCHANGED <<rt, idVars, mu, groupVars, parentErr, exe, sub, exitVars, waitVars>>

\* if err != nil { g.exit(err) } else if !g.closing { switch onExit ... }
RunTaskRecord(i) ==
    /\ task[i].pc = "exitLocked"
    /\ mu = i
    /\ SetGroup(onFinish(GroupState, TaskName(i), task[i].onExit, task[i].res))
    /\ task' = [task EXCEPT ![i].pc = "recorded"]
    /\ UNCHANGED <<rt, idVars, mu, running, done, chans, closedChans, parentErr, exe, sub,
                   exitVars, waitVars>>

\* g.running--; if g.running == 0 { close(g.done) }; the deferred Unlock.
RunTaskDecrement(i) ==
    /\ task[i].pc = "recorded"
    /\ mu = i
    /\ running' = running - 1
    /\ closedChans' = IF running - 1 = 0 THEN closedChans \cup {done} ELSE closedChans
    /\ mu' = Unlocked
    /\ task' = [task EXCEPT ![i] = DoneTask]
    /\ UNCHANGED <<rt, idVars, done, chans, closing, err, ctxErr, cancelCalls, parentErr, exe,
                   sub, exitVars, waitVars>>

\* ---------------------------------------------------------------------
\* Group.Exit
\* ---------------------------------------------------------------------
ExitArgs == {NilErr, ExitErr, Canceled}

ExitLock ==
    /\ exitPc = "idle"
    /\ exitCalls < MaxExitCalls
    /\ mu = Unlocked
    /\ mu' = ExitCaller
    /\ exitPc' = "locked"
    /\ \E e \in ExitArgs : exitArg' = e
    /\ exitCalls' = exitCalls + 1
    /\ UNCHANGED <<rt, idVars, groupVars, parentErr, exe, sub, task, waitVars>>

ExitFinish ==
    /\ exitPc = "locked"
    /\ mu = ExitCaller
    /\ SetGroup(exit(GroupState, exitArg))
    /\ mu' = Unlocked
    /\ exitPc' = "idle"
    /\ exitArg' = NilErr
    /\ UNCHANGED <<rt, idVars, running, done, chans, closedChans, parentErr, exe, sub, task, exitCalls, waitVars>>

\* ---------------------------------------------------------------------
\* Group.Running, Group.Done, Group.Wait
\* ---------------------------------------------------------------------
\* Running() returns g.running under the lock.
Running == running

\* Slots whose Spawn has incremented g.running.
Counted == {i \in Slots : task[i].pc \notin {"new", "spawnLocked"}}

\* Wait calls Done(): g.mu.Lock()
WaitLock ==
    /\ waitPc = "idle"
    /\ mu = Unlocked
    /\ mu' = DoneCaller
    /\ waitPc' = "doneLocked"
    /\ UNCHANGED <<rt, idVars, groupVars, parentErr, exe, sub, task, exitVars, waitCh, waitRes, waitSeen>>

\* Done() returns g.done and unlocks.
WaitDone ==
    /\ waitPc = "doneLocked"
    /\ mu = DoneCaller
    /\ waitCh' = done
    /\ waitSeen' = Counted
    /\ mu' = Unlocked
    /\ waitPc' = "recv"
    /\ UNCHANGED <<rt, idVars, groupVars, parentErr, exe, sub, task, exitVars, waitRes>>

\* <-g.Done() completes once the fetched channel is closed.
WaitRecv ==
    /\ waitPc = "recv"
    /\ waitCh \in closedChans
    /\ waitPc' = "read"
    /\ UNCHANGED <<rt, idVars, mu, groupVars, parentErr, exe, sub, task, exitVars, waitCh, waitRes, waitSeen>>

\* return g.err (read without the lock)
WaitReturn ==
    /\ waitPc = "read"
    /\ waitRes' = err
    /\ waitPc' = "returned"
    /\ UNCHANGED <<rt, idVars, mu, groupVars, parentErr, exe, sub, task, exitVars, waitCh, waitSeen>>

\* ---------------------------------------------------------------------
\* The context NewGroup was given ends (cancelled or past its deadline):
\* g.ctx, derived from it, is done with the same error unless it already
\* was cancelled.
\* ---------------------------------------------------------------------
ParentDoneMutCloses ==
    /\ parentErr = NilErr
    /\ \E e \in {Canceled, DeadlineExceeded} :
         /\ parentErr' = e
         /\ ctxErr' = IF ctxErr = NilErr THEN e ELSE ctxErr
    /\ closing' = TRUE
    /\ UNCHANGED <<rt, idVars, mu, running, done, chans, closedChans, err, cancelCalls,
                   sub, exe, task, exitVars, waitVars>>

ParentDone ==
    /\ parentErr = NilErr
    /\ \E e \in {Canceled, DeadlineExceeded} :
         /\ parentErr' = e
         /\ ctxErr' = IF ctxErr = NilErr THEN e ELSE ctxErr
    /\ UNCHANGED <<rt, idVars, mu, running, done, chans, closedChans, closing, err, cancelCalls,
                   sub, exe, task, exitVars, waitVars>>

Next ==
    \/ \E i \in Slots : SpawnLock(i)
    \/ \E i \in Slots : SpawnCount(i)
    \/ \E i \in Slots : SpawnGo(i)
    \/ \E i \in Slots : TaskReturn(i)
    \/ \E i \in Slots : RunTaskLock(i)
    \/ \E i \in Slots : RunTaskFinish(i)
    \/ ExitLock
    \/ ExitFinish
    \/ WaitLock
    \/ WaitDone
    \/ WaitRecv
    \/ WaitReturn
    \/ ParentDone

Spec == Init /\ [][Next]_vars

\* ---------------------------------------------------------------------
\* Repeated Exit calls: the group under its tasks and a caller that makes
\* up to MaxExitSeq calls of Exit, one after the other.
\* ---------------------------------------------------------------------
ExitLockSeq ==
    /\ exitPc = "idle"
    /\ exitCalls < MaxExitSeq
    /\ mu = Unlocked
    /\ mu' = ExitCaller
    /\ exitPc' = "locked"
    /\ \E e \in ExitArgs : exitArg' = e
    /\ exitCalls' = exitCalls + 1
    /\ UNCHANGED <<rt, idVars, groupVars, parentErr, exe, sub, task, waitVars>>

NextExit ==
    \/ \E i \in Slots : SpawnLock(i)
    \/ \E i \in Slots : SpawnCount(i)
    \/ \E i \in Slots : SpawnGo(i)
    \/ \E i \in Slots : TaskReturn(i)
    \/ \E i \in Slots : RunTaskLock(i)
    \/ \E i \in Slots : RunTaskFinish(i)
    \/ ExitLockSeq
    \/ ExitFinish

ExitSpec == Init /\ [][NextExit]_vars

\* ---------------------------------------------------------------------
\* Panicking tasks: the group under tasks whose bodies return or panic
\* with any of PanicValues, and a caller of Wait.
\* ---------------------------------------------------------------------
NextPanic ==
    \/ \E i \in Slots : SpawnLock(i)
    \/ \E i \in Slots : SpawnCount(i)
    \/ \E i \in Slots : SpawnGo(i)
    \/ \E i \in Slots : TaskReturn(i)
    \/ \E i \in Slots : TaskPanics(i)
    \/ \E i \in Slots : Recover(i)
    \/ \E i \in Slots : RunTaskLock(i)
    \/ \E i \in Slots : RunTaskFinish(i)
    \/ WaitLock
    \/ WaitDone
    \/ WaitRecv
    \/ WaitReturn

PanicSpec == Init /\ [][NextPanic]_vars

\* ---------------------------------------------------------------------
\* NewSubgroup: the variables above are the parent group, sub is the
\* group nested in the parent's task of slot SubSlot.  The critical
\* sections of the subgroup's methods are single steps.
\* ---------------------------------------------------------------------
\* The parent's slot that NewSubgroup spawns the subgroup's task into.
SubSlot == 1

SubTaskName(j) == <<"s1", "s2", "s3">>[j]

\* sub.ctx.Err().  NewGroup derives sub.ctx from the ctx of the parent's
\* task, which is the parent's g.ctx: it is done as soon as g.ctx is.
\* sub.ctxErr keeps the error only when the subgroup cancelled first.
SubCtxErrMutDetached == sub.ctxErr

SubCtxErr == IF sub.ctxErr # NilErr THEN sub.ctxErr ELSE ctxErr

\* The fields of the subgroup that Group.exit reads and writes.
SubGroupState ==
    [err |-> sub.err, closing |-> sub.closing, ctxErr |-> SubCtxErr,
     cancelCalls |-> sub.cancelCalls]

\* The subgroup with those fields replaced.
SubSet(g) ==
    [sub EXCEPT !.err = g.err, !.closing = g.closing, !.cancelCalls = g.cancelCalls,
                !.ctxErr = IF sub.ctxErr = NilErr /\ ctxErr # NilErr
                           THEN NilErr ELSE g.ctxErr]

\* The task of NewSubgroup: g := NewGroup(ctx); ch <- g, received by
\* NewSubgroup, which returns g to its caller.
SubNewGroup ==
    /\ task[SubSlot].pc = "body"
    /\ sub.pc = "none"
    /\ sub' = [sub EXCEPT !.pc = "select"]
    /\ UNCHANGED <<rt, idVars, mu, groupVars, parentErr, exe, task, exitVars, waitVars>>

\* sub.Spawn(name, onExit, task) from Lock to Unlock: running == 0 makes a
\* new done channel, running++.  Slots are used in order.
SubSpawn(j) ==
    /\ sub.pc # "none"
    /\ sub.task[j].pc = "new"
    /\ IF j = 1 THEN TRUE ELSE sub.task[j - 1].pc # "new"
    /\ \E onExit \in Policies :
         sub' = [sub EXCEPT !.task[j] = [pc |-> "counted", onExit |-> onExit, res |-> NilErr,
                                          log |-> <<>>],
                            !.running = sub.running + 1,
                            !.done = IF sub.running = 0 THEN sub.chans ELSE sub.done,
                            !.chans = IF sub.running = 0 THEN sub.chans + 1 ELSE sub.chans]
    /\ UNCHANGED <<rt, idVars, mu, groupVars, parentErr, exe, task, exitVars, waitVars>>

\* The rest of sub.Spawn: the id is allocated, "Task spawned" is logged
\* and go g.runTask(...) starts the task.
SubSpawnGo(j) ==
    /\ sub.task[j].pc = "counted"
    /\ sub' = [sub EXCEPT !.task[j].pc = "body", !.task[j].log = Append(@, LogSpawned)]
    /\ nextTaskID' = AddInt64(nextTaskID, 1)
    /\ taskIDs' = Append(taskIDs, [group |-> "sub", slot |-> j, id |-> nextTaskID'])
    /\ UNCHANGED <<rt, mu, groupVars, parentErr, exe, task, exitVars, waitVars>>

\* What the body of a task of the subgroup may return.
SubTaskResults(j) == {NilErr, TaskErr(SubTaskName(j)), Canceled, SubCtxErr}

\* The body of task j of the subgroup returns.
SubTaskReturn(j) ==
    /\ sub.task[j].pc = "body"
    /\ \E e \in SubTaskResults(j) :
         sub' = [sub EXCEPT !.task[j].pc = "finished", !.task[j].res = e,
                            !.task[j].log = Append(@, LogFinished)]
    /\ UNCHANGED <<rt, idVars, mu, groupVars, parentErr, exe, task, exitVars, waitVars>>

\* runTask of the subgroup, from Lock to the deferred Unlock.
SubRunTaskFinish(j) ==
    /\ sub.task[j].pc = "finished"
    /\ LET g == onFinish(SubGroupState, SubTaskName(j), sub.task[j].onExit, sub.task[j].res)
       IN sub' = [SubSet(g) EXCEPT
                     !.running = sub.running - 1,
                     !.closedChans = IF sub.running - 1 = 0
                                     THEN sub.closedChans \cup {sub.done}
                                     ELSE sub.closedChans,
                     !.task[j] = DoneTask]
    /\ UNCHANGED <<rt, idVars, mu, groupVars, parentErr, exe, task, exitVars, waitVars>>

\* Complete(ctx): the select passes once ctx (the parent's g.ctx) or the
\* subgroup's own ctx is done.
SubSelectMutNoWait ==
    /\ sub.pc = "select"
    /\ sub' = [sub EXCEPT !.pc = "wait"]
    /\ UNCHANGED <<rt, idVars, mu, groupVars, parentErr, exe, task, exitVars, waitVars>>

SubSelect ==
    /\ sub.pc = "select"
    /\ ctxErr # NilErr \/ SubCtxErr # NilErr
    /\ sub' = [sub EXCEPT !.pc = "wait"]
    /\ UNCHANGED <<rt, idVars, mu, groupVars, parentErr, exe, task, exitVars, waitVars>>

\* Tasks of the subgroup whose Spawn has incremented sub.running.
SubCounted == {j \in SubSlots : sub.task[j].pc # "new"}

\* Complete calls Wait, Wait calls Done(): the current channel is fetched.
SubWaitDone ==
    /\ sub.pc = "wait"
    /\ sub' = [sub EXCEPT !.pc = "recv", !.waitCh = sub.done, !.waitSeen = SubCounted]
    /\ UNCHANGED <<rt, idVars, mu, groupVars, parentErr, exe, task, exitVars, waitVars>>

\* <-g.Done() completes once the fetched channel is closed.
SubWaitRecvMutNoWait ==
    /\ sub.pc = "recv"
    /\ sub' = [sub EXCEPT !.pc = "read"]
    /\ UNCHANGED <<rt, idVars, mu, groupVars, parentErr, exe, task, exitVars, waitVars>>

SubWaitRecv ==
    /\ sub.pc = "recv"
    /\ sub.waitCh \in sub.closedChans
    /\ sub' = [sub EXCEPT !.pc = "read"]
    /\ UNCHANGED <<rt, idVars, mu, groupVars, parentErr, exe, task, exitVars, waitVars>>

\* Wait returns g.err.
SubWaitReturn ==
    /\ sub.pc = "read"
    /\ sub' = [sub EXCEPT !.pc = "ret", !.waitRes = sub.err]
    /\ UNCHANGED <<rt, idVars, mu, groupVars, parentErr, exe, task, exitVars, waitVars>>

\* The value of Complete: Wait's result if it is not nil, else ctx.Err().
CompleteMutWaitOnly(waitErr, extErr) == waitErr

CompleteMutCtxFirst(waitErr, extErr) == IF extErr # NilErr THEN extErr ELSE waitErr

Complete(waitErr, extErr) == IF waitErr # NilErr THEN waitErr ELSE extErr

\* Complete returns, and with it the task of the subgroup in the parent:
\* "Task finished" is logged and the parent's runTask goes on to Lock.
SubCompleteReturn ==
    /\ sub.pc = "ret"
    /\ sub' = [sub EXCEPT !.pc = "returned"]
    /\ task' = [task EXCEPT ![SubSlot].pc = "finished",
                            ![SubSlot].res = Complete(sub.waitRes, ctxErr),
                            ![SubSlot].log = Append(@, LogFinished)]
    /\ UNCHANGED <<rt, idVars, mu, groupVars, parentErr, exe, exitVars, waitVars>>

NextSub ==
    \/ SpawnLock(SubSlot)
    \/ SpawnCount(SubSlot)
    \/ SpawnGo(SubSlot)
    \/ RunTaskLock(SubSlot)
    \/ RunTaskFinish(SubSlot)
    \/ WaitLock
    \/ WaitDone
    \/ WaitRecv
    \/ WaitReturn
    \/ ParentDone
    \/ SubNewGroup
    \/ \E j \in SubSlots : SubSpawn(j)
    \/ \E j \in SubSlots : SubSpawnGo(j)
    \/ \E j \in SubSlots : SubTaskReturn(j)
    \/ \E j \in SubSlots : SubRunTaskFinish(j)
    \/ SubSelect
    \/ SubWaitDone
    \/ SubWaitRecv
    \/ SubWaitReturn
    \/ SubCompleteReturn

SubSpec == Init /\ [][NextSub]_vars

\* The subgroup under a parent that is also shut down by an Exit call.
NextSubExit ==
    \/ SpawnLock(SubSlot)
    \/ SpawnCount(SubSlot)
    \/ SpawnGo(SubSlot)
    \/ RunTaskLock(SubSlot)
    \/ RunTaskFinish(SubSlot)
    \/ ExitLock
    \/ ExitFinish
    \/ ParentDone
    \/ SubNewGroup
    \/ \E j \in SubSlots : SubSpawn(j)
    \/ \E j \in SubSlots : SubSpawnGo(j)
    \/ \E j \in SubSlots : SubTaskReturn(j)
    \/ \E j \in SubSlots : SubRunTaskFinish(j)
    \/ SubSelect
    \/ SubWaitDone
    \/ SubWaitRecv
    \/ SubWaitReturn
    \/ SubCompleteReturn

SubExitSpec == Init /\ [][NextSubExit]_vars

\* A Spawn call runs to its end, and the goroutines of the subgroup's
\* tasks and of Complete are scheduled:
\* a task body returns (its scope is cancelled at the latest when Complete
\* waits for it) and no enabled step of runTask or Complete is postponed
\* forever.
FairSubSpec ==
    /\ SubSpec
    /\ \A j \in SubSlots : /\ WF_vars(SubSpawnGo(j))
                          /\ WF_vars(SubTaskReturn(j)) /\ WF_vars(SubRunTaskFinish(j))
    /\ WF_vars(SubSelect) /\ WF_vars(SubWaitDone) /\ WF_vars(SubWaitRecv)
    /\ WF_vars(SubWaitReturn) /\ WF_vars(SubCompleteReturn)

\* The goroutine blocked in Wait is scheduled once it can run: a receive on
\* a closed channel completes and the return that follows it executes.
FairSpec == Spec /\ WF_vars(WaitRecv) /\ WF_vars(WaitReturn)

\* ---------------------------------------------------------------------
\* Run(ctx, start): g := NewGroup(ctx); if err := start(g.Context(),
\* g.Spawn); err != nil { g.Exit(err) }; return g.Wait().  start is one
\* thread: it calls spawn any number of times, one call after the other,
\* and returns nil or an error.
\* ---------------------------------------------------------------------
\* start has not returned yet.
StartRunning == exitCalls = 0 /\ exitPc = "idle" /\ waitPc = "idle"

\* A call of spawn by start has not returned yet.
InSpawn == \E i \in Slots : task[i].pc \in {"spawnLocked", "counted"}

\* start calls spawn(name, onExit, task).
RunSpawn(i) ==
    /\ StartRunning
    /\ ~InSpawn
    /\ SpawnLock(i)

\* start returns an error and Run calls g.Exit(err).
RunExit ==
    /\ StartRunning
    /\ ~InSpawn
    /\ ExitLock
    /\ exitArg' # NilErr

\* start returned nil, or g.Exit(err) has returned: Run calls g.Wait().
RunWait ==
    /\ exitPc = "idle"
    /\ ~InSpawn
    /\ WaitLock

NextRun ==
    \/ \E i \in Slots : RunSpawn(i)
    \/ \E i \in Slots : SpawnCount(i)
    \/ \E i \in Slots : SpawnGo(i)
    \/ \E i \in Slots : TaskReturn(i)
    \/ \E i \in Slots : RunTaskLock(i)
    \/ \E i \in Slots : RunTaskFinish(i)
    \/ RunExit
    \/ ExitFinish
    \/ RunWait
    \/ WaitDone
    \/ WaitRecv
    \/ WaitReturn
    \/ ParentDone

RunSpec == Init /\ [][NextRun]_vars

\* ---------------------------------------------------------------------
\* build Executor.Execute.  The commands are those of build_test.go.
\* ---------------------------------------------------------------------
\* The command functions and what each does: the dependencies it passes to
\* deps, in order (none: deps is not called), and how its body ends.
CommandFuncs == {"cmdA", "cmdAA", "cmdAB", "cmdAC", "cmdB", "cmdC", "cmdD", "cmdE", "cmdF"}

Deps(cmd) ==
    CASE cmd = "cmdA" -> <<"cmdAA", "cmdAB">>
      [] cmd = "cmdAA" -> <<"cmdAC">>
      [] cmd = "cmdAB" -> <<"cmdAC">>
      [] cmd = "cmdC" -> <<"cmdD">>
      [] cmd = "cmdD" -> <<"cmdC">>
      [] OTHER -> <<>>

\* "report": writes its name to the report and returns nil; "nil": returns
\* nil; "error": returns an error; "panic": panics with a string; "ctx":
\* waits for ctx.Done() and returns ctx.Err().
Body(cmd) ==
    CASE cmd \in {"cmdA", "cmdAA", "cmdAB", "cmdAC"} -> "report"
      [] cmd \in {"cmdC", "cmdD"} -> "nil"
      [] cmd = "cmdB" -> "error"
      [] cmd = "cmdE" -> "panic"
      [] OTHER -> "ctx"

\* What a reporting command writes.
ReportName(cmd) ==
    CASE cmd = "cmdA" -> "a" [] cmd = "cmdAA" -> "aa" [] cmd = "cmdAB" -> "ab" [] OTHER -> "ac"

\* e.commands as setup() of the tests registers them.
commands ==
    ("a" :> "cmdA") @@ ("a/aa" :> "cmdAA") @@ ("a/ab" :> "cmdAB") @@ ("b" :> "cmdB")
    @@ ("c" :> "cmdC") @@ ("d" :> "cmdD") @@ ("e" :> "cmdE") @@ ("f" :> "cmdF")

\* The paths a caller may request; "z" is not registered.
PathNames == DOMAIN commands \cup {"z"}

\* The requests: every sequence of at most MaxPaths paths.
PathSeqs == UNION {[1..n -> PathNames] : n \in 0..MaxPaths}

ErrCommand == [kind |-> "error", arg |-> "error"]
ErrCycle == [kind |-> "build: dependency cycle detected", arg |-> ""]
ErrMaxStack == [kind |-> "build: maximum length of stack reached", arg |-> ""]
ErrNotExist(path) == [kind |-> "build: command does not exist", arg |-> path]
ErrPanicked(v) == [kind |-> "command panicked", arg |-> v]

\* depsFunc(deps...): queue and done are made and the worker is started.
\* fed counts the deps the worker has received; w is the worker: "select"
\* (in its for-select), "cmd" (inside cmd(ctx, depsFunc)) or "exited"
\* (done is closed); cur is the command it runs and cpc where that is:
\* "deps" (about to call or inside deps) or "body" (after it).
NewFrame(deps) == [deps |-> deps, fed |-> 0, w |-> "select", cur |-> "", cpc |-> ""]

\* The innermost depsFunc call.
Top == Len(exe.frames)

\* Execute(ctx, paths): the maps and errChan are made; a path that is not
\* registered ends the call with an error, else depsFunc(initDeps...) is
\* called.  ctx may be cancelled already.
Execute ==
    /\ exe.pc = "idle"
    /\ \E paths \in PathSeqs, ctxE \in {NilErr, Canceled} :
         LET missing == {k \in 1..Len(paths) : paths[k] \notin DOMAIN commands}
             first == CHOOSE k \in missing : \A m \in missing : k <= m
             initDeps == [k \in 1..Len(paths) |-> commands[paths[k]]]
         IN exe' = IF missing # {}
                   THEN [exe EXCEPT !.pc = "returned", !.paths = paths, !.ctxErr = ctxE,
                                    !.cancelled = (ctxE # NilErr),
                                    !.result = ErrNotExist(paths[first])]
                   ELSE [exe EXCEPT !.pc = "running", !.paths = paths, !.ctxErr = ctxE,
                                    !.cancelled = (ctxE # NilErr),
                                    !.frames = <<NewFrame(initDeps)>>]
    /\ UNCHANGED <<rt, idVars, mu, groupVars, parentErr, sub, task, exitVars, waitVars>>

\* The caller's context is cancelled while Execute runs.
CtxCancel ==
    /\ exe.pc = "running"
    /\ exe.ctxErr = NilErr
    /\ exe' = [exe EXCEPT !.ctxErr = Canceled]
    /\ UNCHANGED <<rt, idVars, mu, groupVars, parentErr, sub, task, exitVars, waitVars>>

\* The worker's decision on a command received from the queue: "skip" if
\* it was executed, "cycle" if it is on the stack, "max" if the stack is
\* full, else "run".
dispatchMutNoExecuted(executed, stack, cmd) ==
    IF cmd \in stack THEN "cycle"
    ELSE IF Cardinality(stack) >= maxStack THEN "max"
    ELSE "run"

dispatchMutCycleSkips(executed, stack, cmd) ==
    IF cmd \in executed \/ cmd \in stack THEN "skip"
    ELSE IF Cardinality(stack) >= maxStack THEN "max"
    ELSE "run"

dispatch(executed, stack, cmd) ==
    IF cmd \in executed THEN "skip"
    ELSE IF cmd \in stack THEN "cycle"
    ELSE IF Cardinality(stack) >= maxStack THEN "max"
    ELSE "run"

\* errChan <- err; close(errChan); return: the worker ends with an error.
workerFails(x, e) ==
    [x EXCEPT !.errChan = Append(@, e), !.frames[Len(x.frames)].w = "exited"]

\* The worker's select takes <-ctx.Done().
WorkerCtxDone ==
    /\ exe.pc = "running"
    /\ exe.frames[Top].w = "select"
    /\ exe.ctxErr # NilErr
    /\ exe' = workerFails(exe, exe.ctxErr)
    /\ UNCHANGED <<rt, idVars, mu, groupVars, parentErr, sub, task, exitVars, waitVars>>

\* The worker's select takes cmd, ok := <-queue while depsFunc offers the
\* next dependency.
WorkerRecv ==
    /\ exe.pc = "running"
    /\ exe.frames[Top].w = "select"
    /\ exe.frames[Top].fed < Len(exe.frames[Top].deps)
    /\ LET f == exe.frames[Top]
           cmd == f.deps[f.fed + 1]
           d == dispatch(exe.executed, exe.stack, cmd)
           x == [exe EXCEPT !.frames[Top].fed = f.fed + 1]
       IN exe' = CASE d = "skip" -> x
                   [] d = "cycle" -> workerFails(x, ErrCycle)
                   [] d = "max" -> workerFails(x, ErrMaxStack)
                   [] OTHER ->
                        [x EXCEPT !.stack = @ \cup {cmd},
                                  !.started = Append(@, cmd),
                                  !.frames[Top].w = "cmd",
                                  !.frames[Top].cur = cmd,
                                  !.frames[Top].cpc =
                                      IF Deps(cmd) = <<>> THEN "body" ELSE "deps"]
    /\ UNCHANGED <<rt, idVars, mu, groupVars, parentErr, sub, task, exitVars, waitVars>>

\* depsFunc has offered every dependency and closed the queue: the
\* worker's select takes the closed queue and the worker returns.
WorkerQueueClosedMutEarly ==
    /\ exe.pc = "running"
    /\ exe.frames[Top].w = "select"
    /\ exe' = [exe EXCEPT !.frames[Top].w = "exited"]
    /\ UNCHANGED <<rt, idVars, mu, groupVars, parentErr, sub, task, exitVars, waitVars>>

WorkerQueueClosed ==
    /\ exe.pc = "running"
    /\ exe.frames[Top].w = "select"
    /\ exe.frames[Top].fed = Len(exe.frames[Top].deps)
    /\ exe' = [exe EXCEPT !.frames[Top].w = "exited"]
    /\ UNCHANGED <<rt, idVars, mu, groupVars, parentErr, sub, task, exitVars, waitVars>>

\* The command calls deps(...).
CallDeps ==
    /\ exe.pc = "running"
    /\ exe.frames[Top].w = "cmd"
    /\ exe.frames[Top].cpc = "deps"
    /\ exe' = [exe EXCEPT !.frames = Append(@, NewFrame(Deps(exe.frames[Top].cur)))]
    /\ UNCHANGED <<rt, idVars, mu, groupVars, parentErr, sub, task, exitVars, waitVars>>

\* The body of the command after deps, and what the worker does with its
\* outcome: a returned command leaves the stack and is marked executed;
\* an error or a recovered panic ends the worker.
CommandReturn ==
    /\ exe.pc = "running"
    /\ exe.frames[Top].w = "cmd"
    /\ exe.frames[Top].cpc = "body"
    /\ LET cmd == exe.frames[Top].cur
           b == Body(cmd)
           returned == [exe EXCEPT !.stack = @ \ {cmd}, !.executed = @ \cup {cmd},
                                   !.frames[Top].cur = "", !.frames[Top].cpc = ""]
       IN /\ b = "ctx" => exe.ctxErr # NilErr
          /\ exe' = CASE b = "report" ->
                            [returned EXCEPT !.report = Append(@, ReportName(cmd)),
                                             !.frames[Top].w = "select"]
                       [] b = "nil" -> [returned EXCEPT !.frames[Top].w = "select"]
                       [] b = "error" -> workerFails(returned, ErrCommand)
                       [] b = "panic" -> workerFails(exe, ErrPanicked("panic"))
                       [] OTHER -> workerFails(returned, exe.ctxErr)
    /\ UNCHANGED <<rt, idVars, mu, groupVars, parentErr, sub, task, exitVars, waitVars>>

\* The worker of a command's deps call has ended: depsFunc returns to the
\* command, or, with an error in errChan, panics with errReturn, which
\* the worker running the command recovers and returns on.
DepsReturnMutNoPanic ==
    /\ exe.pc = "running"
    /\ Top > 1
    /\ exe.frames[Top].w = "exited"
    /\ exe' = [exe EXCEPT !.frames = SubSeq(@, 1, Top - 1), !.frames[Top - 1].cpc = "body"]
    /\ UNCHANGED <<rt, idVars, mu, groupVars, parentErr, sub, task, exitVars, waitVars>>

DepsReturn ==
    /\ exe.pc = "running"
    /\ Top > 1
    /\ exe.frames[Top].w = "exited"
    /\ LET popped == [exe EXCEPT !.frames = SubSeq(@, 1, Top - 1)]
       IN exe' = IF Len(exe.errChan) > 0
                 THEN [popped EXCEPT !.frames[Top - 1].w = "exited"]
                 ELSE [popped EXCEPT !.frames[Top - 1].cpc = "body"]
    /\ UNCHANGED <<rt, idVars, mu, groupVars, parentErr, sub, task, exitVars, waitVars>>

\* The worker of depsFunc(initDeps...) has ended: Execute receives the
\* error from errChan and returns it, or returns nil.
ExecuteReturn ==
    /\ exe.pc = "running"
    /\ Top = 1
    /\ exe.frames[Top].w = "exited"
    /\ exe' = [exe EXCEPT !.pc = "returned", !.frames = <<>>,
                          !.result = IF Len(exe.errChan) > 0 THEN Head(exe.errChan)
                                     ELSE NilErr,
                          !.errChan = IF Len(exe.errChan) > 0 THEN Tail(exe.errChan)
                                      ELSE exe.errChan]
    /\ UNCHANGED <<rt, idVars, mu, groupVars, parentErr, sub, task, exitVars, waitVars>>

NextBuild ==
    \/ Execute
    \/ CtxCancel
    \/ WorkerCtxDone
    \/ WorkerRecv
    \/ WorkerQueueClosed
    \/ CallDeps
    \/ CommandReturn
    \/ DepsReturn
    \/ ExecuteReturn

BuildSpec == Init /\ [][NextBuild]_vars

TypeOK ==
    /\ mu \in {Unlocked, ExitCaller, DoneCaller} \cup Slots
    /\ running \in 0..MaxTasks
    /\ closing \in BOOLEAN
    /\ done \in 0..(chans - 1)
    /\ closedChans \subseteq 0..(chans - 1)

\* ---------------------------------------------------------------------
\* Properties
\* ---------------------------------------------------------------------
\* The step in which the completion handler of slot i runs its critical
\* section (runTask from Lock to the deferred Unlock).
Finishes(i) == task[i].pc = "exitLocked" /\ task'[i].pc = "done"

\* g.ctx is done: every task of the group sees its scope cancelled.
ScopeCancelled == ctxErr # NilErr

\* C1: whatever its exit policy, a task that finishes with a non-nil error
\* while the group is not closing and has no result makes the group closing,
\* cancels the scope and sets the result to its error; a task that later
\* finishes with nil (an Exit-policy sibling included) leaves that error.
C1_TaskErrorShutsDown ==
    [][\A i \in Slots : Finishes(i) =>
          /\ (task[i].res # NilErr /\ ~closing /\ err = NilErr) =>
                (closing' /\ ScopeCancelled' /\ cancelCalls' = cancelCalls + 1
                 /\ err' = task[i].res)
          /\ (task[i].res = NilErr /\ err # NilErr) => err' = err]_vars

\* Task t1 failed first and its error is the result; the Exit-policy
\* sibling t2 has returned nil and holds the lock to apply its completion.
C1_Witness ==
    /\ err = TaskErr("t1") /\ closing /\ ScopeCancelled /\ exitCalls = 0
    /\ task[1].pc = "done"
    /\ task[2].pc = "exitLocked" /\ task[2].onExit = "Exit" /\ task[2].res = NilErr

\* C2 (as claimed): once the shutdown procedure has recorded its first
\* result (the group is closing), the result never changes.
C2_FirstResultPermanent ==
    [][closing => err' = err]_vars

\* C2 (amended): a recorded non-nil result is permanent and is what Wait
\* returns from then on; a recorded nil result is replaced by the first
\* later error that is not context.Canceled, and by nothing else.
C2_FirstNonNilResultPermanent ==
    /\ [][err # NilErr => err' = err]_vars
    /\ [][(closing /\ err = NilErr /\ err' # NilErr) => err' # Canceled]_vars
    /\ [][(waitPc = "read" /\ waitPc' = "returned" /\ err # NilErr) => waitRes' = err]_vars
    /\ [](waitPc = "returned" /\ waitRes # NilErr => err = waitRes)

\* The result is t1's error while t2 holds the lock with a later error of
\* its own, and Wait has returned t1's error.
C2_Witness ==
    /\ err = TaskErr("t1") /\ closing /\ exitCalls = 0
    /\ task[1].pc = "done"
    /\ task[2].pc = "exitLocked" /\ task[2].res = TaskErr("t2")
    /\ waitPc = "returned" /\ waitRes = TaskErr("t1")

\* C3: Wait does not get past <-g.Done() while a task counted before it
\* fetched the gate is unfinished; when no task is running the gate a
\* blocked Wait holds is open, the blocked Wait then returns, and what it
\* returns is the value of g.err.
C3_WaitCoversSpawnedTasks ==
    /\ [](waitPc \in {"read", "returned"} => \A i \in waitSeen : task[i].pc = "done")
    /\ []((waitPc = "recv" /\ running = 0) => waitCh \in closedChans)
    /\ [][(waitPc = "read" /\ waitPc' = "returned") => waitRes' = err]_vars
    /\ ((waitPc = "recv" /\ running = 0) ~> (waitPc = "returned"))

\* Wait was called with both tasks spawned and has returned t2's error
\* after both finished.
C3_Witness ==
    /\ waitPc = "returned" /\ waitSeen = {1, 2}
    /\ task[1].pc = "done" /\ task[2].pc = "done"
    /\ waitRes = TaskErr("t2")

\* C4 (as claimed): once the group is closing, a task that returns the
\* scope's cancellation error ctx.Err(), or an Exit call with it, does not
\* change the result.
C4_ScopeErrorDiscarded ==
    [][/\ \A i \in Slots :
            (Finishes(i) /\ closing /\ ScopeCancelled /\ task[i].res = ctxErr) => err' = err
       /\ (exitPc = "locked" /\ exitPc' = "idle" /\ closing /\ ScopeCancelled
             /\ exitArg = ctxErr) => err' = err]_vars

\* C4 (amended): once the group is closing, a task or Exit call reporting
\* context.Canceled changes nothing in the group; ctx.Err() is such an
\* error exactly when the scope was cancelled rather than timed out.
C4_CanceledDiscarded ==
    [][/\ \A i \in Slots :
            (Finishes(i) /\ closing /\ task[i].res = Canceled) =>
                UNCHANGED <<err, closing, ctxErr, cancelCalls>>
       /\ (exitPc = "locked" /\ exitPc' = "idle" /\ closing /\ exitArg = Canceled) =>
                UNCHANGED <<err, closing, ctxErr, cancelCalls>>]_vars

\* An Exit-policy shutdown left the result nil; t2 has returned ctx.Err()
\* (context.Canceled) and holds the lock to report it.
C4_Witness ==
    /\ closing /\ err = NilErr /\ ctxErr = Canceled /\ exitCalls = 0
    /\ task[1].pc = "done"
    /\ task[2].pc = "exitLocked" /\ task[2].res = Canceled

\* C5: when the group is closing with a nil result, a task that finishes
\* with an error that is not context.Canceled makes that error the result.
C5_ShutdownErrorReplacesNil ==
    [][\A i \in Slots :
          (Finishes(i) /\ closing /\ err = NilErr /\ task[i].res # NilErr
             /\ task[i].res # Canceled) => err' = task[i].res]_vars

\* The group was shut down with nil by t1 (no Exit call was made); t2,
\* whose scope is cancelled, has returned an error of its own and holds the
\* lock to report it, with Wait blocked on the gate.
C5_Witness ==
    /\ closing /\ err = NilErr /\ ctxErr = Canceled /\ exitCalls = 0
    /\ task[1].pc = "done"
    /\ task[2].pc = "exitLocked" /\ task[2].res = TaskErr("t2")
    /\ waitPc = "recv" /\ waitSeen = {1, 2}

\* C6: a task that returns context.Canceled while the group is not closing
\* shuts the group down with context.Canceled as the result.
C6_CanceledBeforeShutdownRecorded ==
    [][\A i \in Slots :
          (Finishes(i) /\ ~closing /\ task[i].res = Canceled) =>
              (err' = Canceled /\ closing' /\ ScopeCancelled')]_vars

\* The only task returned context.Canceled with the scope never cancelled
\* from outside, and Wait returned context.Canceled.
C6_Witness ==
    /\ err = Canceled /\ closing /\ exitCalls = 0 /\ parentErr = NilErr
    /\ task[1].pc = "done" /\ task[2].pc = "new"
    /\ waitPc = "returned" /\ waitRes = Canceled

\* C7: an Exit-policy task finishing with nil leaves the result as it is
\* (nil when the group was not closing); the group is closing and the
\* scope cancelled afterwards, the scope being cancelled by this step
\* exactly when the group was not closing before.
C7_ExitPolicyNil ==
    [][\A i \in Slots :
          (Finishes(i) /\ task[i].res = NilErr /\ task[i].onExit = "Exit") =>
              /\ err' = err
              /\ ~closing => err' = NilErr
              /\ closing' /\ ScopeCancelled'
              /\ cancelCalls' = IF closing THEN cancelCalls ELSE cancelCalls + 1]_vars

\* One Exit-policy task has shut the group down with nil; the second one
\* has returned nil and holds the lock.
C7_Witness ==
    /\ closing /\ err = NilErr /\ cancelCalls = 1 /\ exitCalls = 0 /\ parentErr = NilErr
    /\ task[1].pc = "done"
    /\ task[2].pc = "exitLocked" /\ task[2].onExit = "Exit" /\ task[2].res = NilErr

\* C8: a Fail-policy task named N finishing with nil while the group is
\* not closing sets the result to "task N terminated unexpectedly", makes
\* the group closing and cancels the scope shared by all tasks.
C8_FailPolicyNil ==
    [][\A i \in Slots :
          (Finishes(i) /\ task[i].res = NilErr /\ task[i].onExit = "Fail"
             /\ ~closing /\ err = NilErr) =>
              /\ err' = UnexpectedErr(TaskName(i))
              /\ closing' /\ ScopeCancelled'
              /\ cancelCalls' = cancelCalls + 1]_vars

\* t1 terminated unexpectedly while t2 is still in its body, with the
\* scope now cancelled.
C8_Witness ==
    /\ err = UnexpectedErr("t1") /\ closing /\ ctxErr = Canceled
    /\ task[1].pc = "done" /\ task[2].pc = "body"

\* C9: a Continue-policy task finishing with nil decrements the running
\* count by one and changes neither the result, the closing flag, the
\* scope nor any sibling.
C9_ContinueNilFrame ==
    [][\A i \in Slots :
          (Finishes(i) /\ task[i].res = NilErr /\ task[i].onExit = "Continue") =>
              /\ running' = running - 1
              /\ UNCHANGED <<err, closing, ctxErr, cancelCalls>>
              /\ \A j \in Slots \ {i} : task'[j] = task[j]]_vars

\* A task has finished and the group is untouched: not closing, scope
\* live, the sibling still in its body.
C9_Witness ==
    /\ task[1].pc = "done" /\ task[2].pc = "body"
    /\ running = 1 /\ ~closing /\ err = NilErr /\ ctxErr = NilErr /\ cancelCalls = 0

\* C10: a task of any policy that finishes with nil while the group is
\* already closing changes neither the result nor the shutdown state.
C10_PolicyOnlyWhenNotClosing ==
    [][\A i \in Slots :
          (Finishes(i) /\ task[i].res = NilErr /\ closing) =>
              UNCHANGED <<err, closing, ctxErr, cancelCalls>>]_vars

\* The group was shut down with nil by t1; the Fail-policy task t2 has
\* returned nil under the cancelled scope and holds the lock.
C10_Witness ==
    /\ closing /\ err = NilErr /\ ctxErr = Canceled /\ exitCalls = 0
    /\ task[1].pc = "done"
    /\ task[2].pc = "exitLocked" /\ task[2].onExit = "Fail" /\ task[2].res = NilErr

\* The step in which an Exit call runs Group.exit and unlocks.
ExitReturns == exitPc = "locked" /\ exitPc' = "idle"

\* C11 (as claimed): the first shutdown request fixes the result: an Exit
\* call on a group that is not closing makes its err the result, and no
\* later Exit call or task completion changes the result.
C11_FirstExitRetained ==
    [][/\ ExitReturns => err' = (IF closing THEN err ELSE exitArg)
       /\ \A i \in Slots : (Finishes(i) /\ closing) => err' = err]_vars

\* C11 (amended): Exit(err) leaves a non-nil result alone and otherwise
\* makes err the result, unless the group is closing and err is
\* context.Canceled; so the first non-nil err of an Exit call or task that
\* is not discarded is retained, and an earlier nil is not.  Repeating a
\* call with the recorded result changes nothing.
C11_FirstNonNilExitRetained ==
    [][/\ ExitReturns =>
            /\ err' = (IF err # NilErr \/ (closing /\ exitArg = Canceled)
                        THEN err ELSE exitArg)
            /\ closing'
            /\ (closing /\ exitArg = err) => UNCHANGED <<err, closing, ctxErr, cancelCalls>>
       /\ \A i \in Slots : (Finishes(i) /\ err # NilErr) => err' = err]_vars

\* The first Exit call recorded context.Canceled before any task was
\* spawned; the second call holds the lock with another error.
C11_Witness ==
    /\ err = Canceled /\ closing /\ exitCalls = 2
    /\ exitPc = "locked" /\ exitArg = ExitErr
    /\ \A i \in Slots : task[i].pc = "new"

\* C12: the group calls g.cancel() at most once, and has called it exactly
\* once if and only if it is closing; a task completion or Exit call on a
\* group that is already closing leaves the scope's cancellation state as
\* it was.
C12_CancelledOnce ==
    /\ [](cancelCalls <= 1 /\ (cancelCalls = 1 <=> closing))
    /\ [](closing => ScopeCancelled)
    /\ [][((ExitReturns \/ \E i \in Slots : Finishes(i)) /\ closing) =>
            UNCHANGED <<ctxErr, cancelCalls, closing>>]_vars

\* Task t1 shut the group down with its error and an Exit call has run
\* as well: two shutdown requests, one cancellation.
C12_Witness ==
    /\ closing /\ cancelCalls = 1 /\ ctxErr = Canceled
    /\ err = TaskErr("t1") /\ task[1].pc = "done"
    /\ exitCalls = 1 /\ exitPc = "idle"

\* Slots whose completion handler has run.
Completed == {i \in Slots : task[i].pc = "done"}

\* C13: the running count is the number of Spawn calls that have counted
\* their task minus the number of completion handlers that have run, and
\* is never negative.
C13_RunningCount ==
    /\ running = Cardinality(Counted) - Cardinality(Completed)
    /\ running >= 0

\* t1 panicked and its handler has run; t2 is still in its body: two
\* spawned, one finished, one running.
C13_Witness ==
    /\ err = PanicError("t1") /\ task[1].pc = "done"
    /\ task[2].pc = "body" /\ running = 1

\* C14: whenever g.mu is free, the channel Done() would return is closed
\* exactly when no task is running; a channel Wait fetched from Done()
\* while tasks it saw are unfinished is not closed, in every idle/busy
\* cycle of the group.
C14_GateOpenIffIdle ==
    /\ mu = Unlocked => (done \in closedChans <=> running = 0)
    /\ (waitPc = "recv" /\ \E i \in waitSeen : task[i].pc # "done")
          => waitCh \notin closedChans

\* Second busy period: t1 ran and finished (the group was idle again), then
\* t2 was spawned, a third channel was made and is not closed while t2 runs.
C14_Witness ==
    /\ mu = Unlocked /\ chans = 3 /\ done = 2 /\ closedChans = {0, 1}
    /\ task[1].pc = "done" /\ task[2].pc = "body" /\ running = 1
    /\ waitPc = "recv" /\ waitCh = 2

\* The step in which the deferred function of runTask has recovered the
\* panic of slot i.
Recovers(i) == task[i].pc = "panicking" /\ task'[i].pc # "panicking"

\* C15: a panic inside a spawned task does not escape: the only step of a
\* panicking task is the recovery, which yields the PanicError carrying the
\* panic value; that error is then handled like a returned error (the group
\* starts closing and its scope is cancelled, the error is recorded when no
\* result was recorded and it is not cancellation noise, a recorded result
\* is kept), running is decremented, and Wait returns the recorded
\* PanicError.
C15_PanicCaptured ==
    [][/\ \A i \in Slots :
            /\ (task[i].pc = "panicking" /\ task'[i] # task[i])
                  => /\ task'[i].pc = "finished"
                     /\ task'[i].res = [kind |-> "panic", Value |-> task[i].res.Value]
            /\ (Finishes(i) /\ task[i].res.kind = "panic")
                  => /\ running' = running - 1
                     /\ closing' /\ ctxErr' # NilErr
                     /\ (err = NilErr /\ ~(closing /\ Unwrap(task[i].res) = Canceled))
                           => err' = task[i].res
                     /\ err # NilErr => err' = err
       /\ (waitPc = "read" /\ waitPc' = "returned" /\ err.kind = "panic")
             => waitRes' = err]_vars

\* t1 panicked with an error value, the panic was captured and recorded and
\* Wait has returned the PanicError; no task is left running.
C15_Witness ==
    /\ waitPc = "returned" /\ waitRes = [kind |-> "panic", Value |-> GoError(TaskErr("t1"))]
    /\ err = waitRes /\ running = 0 /\ closing /\ ctxErr # NilErr
    /\ task[1].pc = "done"

\* C16: for every panic value v the PanicError exposes v as Value, Unwrap
\* returns v when v is an error and nil otherwise, and Error() is "panic: "
\* followed by v in its default rendering.
C16_PanicErrorForm ==
    [][\A i \in Slots :
          Recovers(i) =>
             LET v == task[i].res.Value
                 e == task'[i].res
             IN  /\ e.Value = v
                 /\ Unwrap(e) = IF v.type = "error" THEN v.err ELSE NilErr
                 /\ ErrorString(e) = <<"panic: ">> \o Sprint(v)]_vars

\* The step in which Complete returns to the parent's runTask.
CompleteReturns == sub.pc = "ret" /\ sub'.pc = "returned"

\* C17: Complete(ctx) returns the result Wait returned for the group when
\* that is not nil, and that is the group's recorded result; when it is nil
\* Complete returns ctx.Err(), which is nil while ctx is not cancelled.
C17_CompleteResult ==
    [][CompleteReturns =>
          /\ task'[SubSlot].pc = "finished"
          /\ sub.waitRes # NilErr
                => task'[SubSlot].res = sub.waitRes /\ sub.waitRes = sub.err
          /\ sub.waitRes = NilErr => task'[SubSlot].res = ctxErr]_vars

\* The subgroup shut itself down with a nil result (a task with OnExit
\* Exit returned nil) while the parent's scope is live: Complete returned
\* nil.
C17_Witness ==
    /\ sub.pc = "returned" /\ task[SubSlot].pc = "finished"
    /\ sub.closing /\ sub.err = NilErr /\ sub.ctxErr = Canceled
    /\ ctxErr = NilErr /\ task[SubSlot].res = NilErr
    /\ sub.task[1].pc = "done"

\* C18: once the parent's scope is cancelled the scope of a created
\* subgroup is cancelled; the subgroup's tasks having finished, Complete
\* returns; and if the subgroup has recorded no result, Complete returns
\* the cancellation error of the parent's scope.
C18_ParentCancelsSubgroup ==
    /\ [](sub.pc # "none" /\ ctxErr # NilErr => SubCtxErr # NilErr)
    /\ (sub.pc # "none" /\ ctxErr # NilErr) ~> (sub.pc = "returned")
    /\ [][(CompleteReturns /\ ctxErr # NilErr /\ sub.err = NilErr)
             => task'[SubSlot].res = ctxErr]_vars

\* The context of the parent passed its deadline; the task of the
\* subgroup returned nil, Complete returned DeadlineExceeded.
C18_Witness ==
    /\ parentErr = DeadlineExceeded /\ ctxErr = DeadlineExceeded
    /\ sub.pc = "returned" /\ sub.err = NilErr /\ ~sub.closing
    /\ sub.task[1].pc = "done" /\ sub.running = 0
    /\ task[SubSlot].pc = "finished" /\ task[SubSlot].res = DeadlineExceeded

\* Tasks of the subgroup that have been spawned and have not finished.
SubRunning == {j \in SubSlots : sub.task[j].pc \in {"body", "finished"}}

\* Tasks of the subgroup that Complete waits for: those counted before its
\* Wait fetched the done channel.
SubCovered == IF sub.pc \in {"none", "select", "wait"} THEN SubCounted ELSE sub.waitSeen

\* C19 as claimed: the parent counts the subgroup as one task, its running
\* count is at least 1 while any task of the subgroup is running, and a
\* Wait of the parent started after the subgroup was attached has not
\* returned while a task of the subgroup is running.
C19_SubtreeIsOneTask ==
    /\ running <= 1
    /\ SubRunning # {} => running >= 1
    /\ (waitPc \in {"read", "returned"} /\ SubSlot \in waitSeen) => SubRunning = {}

\* C19, amended: the same for the tasks of the subgroup that were counted
\* before Complete's Wait fetched the subgroup's done channel; the task of
\* the subgroup is then still inside Complete.
C19_CoveredSubtreeIsOneTask ==
    /\ running <= 1
    /\ SubRunning \cap SubCovered # {} => running >= 1 /\ task[SubSlot].pc = "body"
    /\ (waitPc \in {"read", "returned"} /\ SubSlot \in waitSeen)
          => SubRunning \cap SubCovered = {}

\* Two tasks run in the subgroup; Complete waits for them and the Wait of
\* the parent waits for the one task that is the subgroup.
C19_Witness ==
    /\ sub.pc = "recv" /\ sub.waitSeen = {1, 2} /\ sub.running = 2
    /\ sub.task[1].pc = "body" /\ sub.task[2].pc = "body"
    /\ running = 1 /\ task[SubSlot].pc = "body"
    /\ waitPc = "recv" /\ SubSlot \in waitSeen

\* The step in which runTask of the subgroup handles the result of task j.
SubFinishes(j) == sub.task[j].pc = "finished" /\ sub'.task[j].pc = "done"

\* C20 as claimed: a task of the subgroup failing with e while neither
\* group has a result makes e the subgroup's result; Complete returns the
\* subgroup's result e; and the parent, handling e as the result of the
\* subgroup's task, records e and cancels its scope under any exit policy.
C20_FailurePropagates ==
    [][/\ \A j \in SubSlots :
            (SubFinishes(j) /\ sub.task[j].res # NilErr /\ sub.err = NilErr /\ err = NilErr)
               => sub'.err = sub.task[j].res
       /\ (CompleteReturns /\ sub.err # NilErr) => task'[SubSlot].res = sub.err
       /\ (Finishes(SubSlot) /\ task[SubSlot].res # NilErr
             /\ task[SubSlot].res = sub.err /\ err = NilErr)
             => err' = task[SubSlot].res /\ closing' /\ ctxErr' # NilErr]_vars

\* C20, amended: e becomes the subgroup's result unless it is
\* context.Canceled and the subgroup is already closing; Complete returns
\* the subgroup's result when Wait returned one, and Wait returned nil with
\* a result recorded only if a task spawned after Wait fetched the done
\* channel has finished; the parent records e and cancels its scope under
\* any exit policy unless e is context.Canceled and the parent is already
\* closing.
C20_CoveredFailurePropagates ==
    [][/\ \A j \in SubSlots :
            (SubFinishes(j) /\ sub.task[j].res # NilErr /\ sub.err = NilErr /\ err = NilErr
              /\ ~(sub.closing /\ sub.task[j].res = Canceled))
               => sub'.err = sub.task[j].res
       /\ (CompleteReturns /\ sub.waitRes # NilErr) => task'[SubSlot].res = sub.err
       /\ (CompleteReturns /\ sub.waitRes = NilErr /\ sub.err # NilErr)
             => \E j \in SubSlots \ sub.waitSeen : sub.task[j].pc = "done"
       /\ (Finishes(SubSlot) /\ task[SubSlot].res # NilErr
             /\ task[SubSlot].res = sub.err /\ err = NilErr
             /\ ~(closing /\ task[SubSlot].res = Canceled))
             => err' = task[SubSlot].res /\ closing' /\ ctxErr' # NilErr]_vars

\* Task s1 of the subgroup failed; its error is the result of the subgroup
\* and, the task of the subgroup having finished, of the parent, whose
\* scope is cancelled.
C20_Witness ==
    /\ sub.err = TaskErr("s1") /\ sub.closing /\ sub.pc = "returned"
    /\ 1 \in sub.waitSeen
    /\ task[SubSlot].pc = "done"
    /\ err = TaskErr("s1") /\ closing /\ ctxErr = Canceled /\ running = 0

\* The step in which Wait returns.
WaitReturns == waitPc = "read" /\ waitPc' = "returned"

\* C21 as claimed: the error e that start returned becomes the result when
\* none was recorded, a result recorded before is kept, Run returns the
\* result when every spawned task has finished, and Run returns nil when
\* start spawned nothing and returned nil.
C21_RunResult ==
    [][/\ (ExitReturns /\ err = NilErr) => err' = exitArg
       /\ (ExitReturns /\ err # NilErr) => err' = err
       /\ WaitReturns
             => /\ waitRes' = err
                /\ \A i \in Slots : task[i].pc \in {"new", "done"}
                /\ (exitCalls = 0 /\ \A i \in Slots : task[i].pc = "new")
                      => waitRes' = NilErr]_vars

\* C21, amended: the same, except that context.Canceled returned by
\* start is discarded when the group is already closing: Run then
\* returns the result the tasks leave, which may be nil.
C21_RunResultButNoise ==
    [][/\ (ExitReturns /\ err = NilErr /\ ~(closing /\ exitArg = Canceled))
             => err' = exitArg
       /\ (ExitReturns /\ err # NilErr) => err' = err
       /\ WaitReturns
             => /\ waitRes' = err
                /\ \A i \in Slots : task[i].pc \in {"new", "done"}
                /\ (exitCalls = 0 /\ \A i \in Slots : task[i].pc = "new")
                      => waitRes' = NilErr]_vars

\* start spawned t1 and t2 and returned the error "exit" before any
\* result was recorded; both tasks finished and Run returned that error.
C21_Witness ==
    /\ waitPc = "returned" /\ waitRes = ExitErr /\ exitCalls = 1
    /\ task[1].pc = "done" /\ task[2].pc = "done" /\ running = 0

\* No Spawn and no Exit has been called on the group.
Fresh == exitCalls = 0 /\ \A i \in Slots : task[i].pc = "new"

\* C22: a group on which nothing was spawned is idle: the channel of
\* Done() is closed, Running() is 0, the result is nil, and Wait does not
\* block on the channel it fetched and returns nil.
C22_FreshGroupIdle ==
    Fresh => /\ done \in closedChans
             /\ Running = 0
             /\ err = NilErr
             /\ waitPc = "recv" => waitCh \in closedChans
             /\ waitPc = "returned" => waitRes = NilErr

\* Wait was called on the fresh group and has returned nil.
C22_Witness ==
    /\ Fresh /\ waitPc = "returned" /\ waitRes = NilErr
    /\ waitCh = 0 /\ chans = 1 /\ running = 0

\* The commands a set of commands passes to deps, and their closure: all
\* the commands reachable from S through deps, S included.
DepsOf(S) == UNION {{Deps(c)[k] : k \in 1..Len(Deps(c))} : c \in S}

RECURSIVE Reach(_)
Reach(S) == IF DepsOf(S) \subseteq S THEN S ELSE Reach(S \cup DepsOf(S))

\* The registered commands of the requested paths.
Requested ==
    {commands[exe.paths[k]] : k \in {m \in 1..Len(exe.paths) : exe.paths[m] \in DOMAIN commands}}

\* Every requested path is registered.
AllRegistered == \A k \in 1..Len(exe.paths) : exe.paths[k] \in DOMAIN commands

\* C23: no command is started twice in one call of Execute, whatever the
\* paths and the dependencies.
C23_ExecutedOnce ==
    \A i, j \in 1..Len(exe.started) : i # j => exe.started[i] # exe.started[j]

\* Execute(ctx, {"a", "a"}) has returned nil: cmdA, requested twice, and
\* cmdAC, a dependency of cmdAA and of cmdAB, ran once.
C23_Witness ==
    /\ exe.pc = "returned" /\ exe.paths = <<"a", "a">> /\ exe.result = NilErr
    /\ exe.started = <<"cmdA", "cmdAA", "cmdAC", "cmdAB">>
    /\ exe.report = <<"ac", "aa", "ab", "a">>

\* The step in which the worker of the innermost deps call receives its
\* next command.
Receives ==
    /\ exe.pc = "running" /\ exe'.pc = "running"
    /\ Len(exe'.frames) = Top
    /\ exe'.frames[Top].fed = exe.frames[Top].fed + 1

\* The step in which a deps call returns to its command.
DepsReturns ==
    /\ exe.pc = "running" /\ exe'.pc = "running"
    /\ Len(exe'.frames) = Top - 1
    /\ exe'.frames[Top - 1].cpc = "body"

\* C24: a command is received by the worker only when the dependencies
\* (or paths) listed before it have completed; deps(d1, ..., dn) returns
\* only when d1..dn and all they depend on have completed; and when the
\* body of a command runs, the reports of its dependencies are written.
C24_DepsCompleteInOrder ==
    [][/\ Receives
             => \A k \in 1..exe.frames[Top].fed :
                    exe.frames[Top].deps[k] \in exe.executed
       /\ DepsReturns
             => LET listed == {exe.frames[Top].deps[k] : k \in 1..Len(exe.frames[Top].deps)}
                IN /\ exe.frames[Top].fed = Len(exe.frames[Top].deps)
                   /\ Reach(listed) \subseteq exe.executed
       /\ (exe.pc = "running" /\ exe'.pc = "running"
             /\ Len(exe'.report) = Len(exe.report) + 1)
             => \A c \in Reach(DepsOf({exe.frames[Top].cur})) :
                    Body(c) = "report"
                      => \E k \in 1..Len(exe.report) : exe.report[k] = ReportName(c)]_vars

\* Execute(ctx, {"a/ab", "a"}): cmdAB ran first, then cmdA, whose
\* dependency cmdAB was skipped; cmdA is running its body after deps.
C24_Witness ==
    /\ exe.pc = "running" /\ exe.paths = <<"a/ab", "a">>
    /\ exe.started = <<"cmdAB", "cmdAC", "cmdA", "cmdAA">>
    /\ exe.report = <<"ac", "ab", "aa">>
    /\ Top = 1 /\ exe.frames[1].cur = "cmdA" /\ exe.frames[1].cpc = "body"

\* A command reachable from the requested ones depends on itself.
CycleReachable == \E c \in Reach(Requested) : c \in Reach(DepsOf({c}))

\* The started commands.
Started == {exe.started[k] : k \in 1..Len(exe.started)}

\* C25 as claimed: the chain of deps calls never grows beyond the number
\* of commands; with a cycle reachable from the requested paths Execute
\* returns the cycle error; and if a command that returns an error or
\* panics was run, Execute returns an error.
C25_CycleAndFailuresReported ==
    /\ Len(exe.frames) <= Cardinality(CommandFuncs) + 1
    /\ (exe.pc = "returned" /\ AllRegistered /\ CycleReachable) => exe.result = ErrCycle
    /\ (exe.pc = "returned" /\ \E c \in Started : Body(c) \in {"error", "panic"})
          => exe.result # NilErr

\* C25, amended: with a cycle reachable Execute returns an error: the
\* error of the command that returned an error or panicked if one was
\* run, else the cycle error or, only when the context was cancelled, the
\* context's error.
C25_CycleOrEarlierFailureReported ==
    /\ Len(exe.frames) <= Cardinality(CommandFuncs) + 1
    /\ (exe.pc = "returned" /\ AllRegistered /\ CycleReachable)
          => /\ exe.result # NilErr
             /\ (\E c \in Started : Body(c) = "error") => exe.result = ErrCommand
             /\ (\E c \in Started : Body(c) = "panic") => exe.result = ErrPanicked("panic")
             /\ (\A c \in Started : Body(c) \notin {"error", "panic"})
                   => \/ exe.result = ErrCycle
                      \/ exe.ctxErr # NilErr /\ exe.result = exe.ctxErr
    /\ (exe.pc = "returned" /\ \E c \in Started : Body(c) \in {"error", "panic"})
          => exe.result # NilErr

\* Execute(ctx, {"a/aa", "c"}): cmdAA and cmdAC ran, cmdC called
\* deps(cmdD), cmdD called deps(cmdC), and Execute returned the cycle
\* error.
C25_Witness ==
    /\ exe.pc = "returned" /\ exe.paths = <<"a/aa", "c">> /\ exe.ctxErr = NilErr
    /\ exe.started = <<"cmdAA", "cmdAC", "cmdC", "cmdD">>
    /\ exe.stack = {"cmdC", "cmdD"}
    /\ exe.result = ErrCycle

\* C26: Execute called with a context that is already cancelled returns
\* context.Canceled, whatever registered commands are requested.
C26_CancelledBeforeCall ==
    (exe.pc = "returned" /\ exe.cancelled /\ AllRegistered) => exe.result = Canceled

\* The step in which Spawn counts the task of slot i.
Counts(i) == task[i].pc = "spawnLocked" /\ task'[i].pc = "counted"

\* C27: Spawn is not refused while the group is closing; it increments
\* running and, if running was 0, leaves an open done channel; the task is
\* started; a task spawned into a closing group finds its scope cancelled;
\* and a Wait that fetched the channel after the task was counted does not
\* return before the task has finished.
C27_SpawnAfterShutdown ==
    /\ [](\A i \in Slots :
            /\ (closing /\ mu = Unlocked /\ task[i].pc = "new"
                  /\ (IF i = 1 THEN TRUE ELSE task[i - 1].pc # "new"))
                  => ENABLED SpawnLock(i)
            /\ (closing /\ task[i].pc = "counted") => ENABLED SpawnGo(i)
            /\ (closing /\ task[i].pc \in {"counted", "body"}) => ctxErr # NilErr
            /\ (i \in waitSeen /\ waitPc \in {"read", "returned"}) => task[i].pc = "done")
    /\ [][\A i \in Slots :
            (closing /\ Counts(i))
               => /\ running' = running + 1
                  /\ done' \notin closedChans'
                  /\ running = 0 => done' \notin closedChans]_vars

\* t1 shut the group down and finished; t2 was spawned afterwards into
\* the idle closing group, runs with its scope cancelled behind a new
\* done channel, and a Wait called after the Spawn is blocked.
C27_Witness ==
    /\ closing /\ ctxErr = Canceled /\ task[1].pc = "done" /\ cancelCalls = 1
    /\ task[2].pc = "body" /\ running = 1
    /\ chans = 3 /\ done = 2 /\ closedChans = {0, 1}
    /\ waitPc = "recv" /\ waitCh = 2 /\ waitSeen = {1, 2}

\* Spawn and runTask of every task one statement at a time, with Exit
\* calls and the parent context ending at any point.
NextEvents ==
    \/ \E i \in Slots : SpawnLock(i)
    \/ \E i \in Slots : SpawnCount(i)
    \/ \E i \in Slots : SpawnLog(i)
    \/ \E i \in Slots : SpawnStart(i)
    \/ \E i \in Slots : TaskBodyReturns(i)
    \/ \E i \in Slots : TaskLog(i)
    \/ \E i \in Slots : RunTaskLock(i)
    \/ \E i \in Slots : RunTaskRecord(i)
    \/ \E i \in Slots : RunTaskDecrement(i)
    \/ ExitLock
    \/ ExitFinish
    \/ ParentDone

EventSpec == Init /\ [][NextEvents]_vars

\* The positions of a task in the order its events occur: Spawn has
\* locked, running is incremented, "Task spawned" is logged, the body
\* runs, the body has ended, "Task finished" is logged, runTask has
\* locked, the result is applied, running is decremented.
EventOrder ==
    {<<"new", "spawnLocked">>, <<"spawnLocked", "counted">>, <<"counted", "logged">>,
     <<"logged", "body">>, <<"body", "ended">>, <<"ended", "finished">>,
     <<"finished", "exitLocked">>, <<"exitLocked", "recorded">>, <<"recorded", "done">>}

\* The steps in which the completion handler of task i applies the
\* result and decrements running.
Records(i) == task[i].pc = "exitLocked" /\ task'[i].pc = "recorded"
Decrements(i) == task[i].pc = "recorded" /\ task'[i].pc = "done"

\* C28: every task goes through its events in that order.  running is
\* incremented only when Spawn counts a task, before any diagnostic of
\* the task; "Task spawned" is written next, as the first diagnostic, for
\* a counted task whose body has not started; the body starts after it
\* and ends before "Task finished", which is written as the second
\* diagnostic without a change to the group; the result, closing and the
\* cancellation change by a task only in the step that applies its
\* result, which comes after "Task finished" and leaves running and the
\* done channel alone; running is decremented only in the next step of
\* that task, and the done channel is closed only by that step, when
\* running reaches 0.
C28_TaskEventOrder ==
    [][/\ \A i \in Slots :
            /\ task'[i].pc # task[i].pc => <<task[i].pc, task'[i].pc>> \in EventOrder
            /\ Counts(i) => (running' = running + 1 /\ task[i].log = <<>>)
            /\ task'[i].log # task[i].log
                  => \/ /\ task[i].pc = "counted" /\ task'[i].pc = "logged"
                        /\ task[i].log = <<>> /\ task'[i].log = <<LogSpawned>>
                     \/ /\ task[i].pc = "ended" /\ task'[i].pc = "finished"
                        /\ task'[i].log = <<LogSpawned, LogFinished>>
                        /\ UNCHANGED <<running, closedChans, err, closing, ctxErr, cancelCalls>>
            /\ (task[i].pc # "body" /\ task'[i].pc = "body") => task[i].log = <<LogSpawned>>
            /\ (task[i].pc = "body" /\ task'[i].pc # "body")
                  => /\ task'[i].log = <<LogSpawned>>
                     /\ UNCHANGED <<running, closedChans, err, closing, ctxErr, cancelCalls>>
            /\ Records(i)
                  => /\ task[i].log = <<LogSpawned, LogFinished>>
                     /\ UNCHANGED <<running, closedChans>>
            /\ Decrements(i)
                  => /\ running' = running - 1
                     /\ closedChans' = IF running' = 0 THEN closedChans \cup {done}
                                        ELSE closedChans
                     /\ UNCHANGED <<err, closing, cancelCalls>>
       /\ running' > running => \E i \in Slots : Counts(i)
       /\ running' < running => \E i \in Slots : Decrements(i)
       /\ closedChans' # closedChans => \E i \in Slots : Decrements(i)
       /\ (err' # err \/ closing' # closing \/ cancelCalls' # cancelCalls)
             => (\E i \in Slots : Records(i)) \/ ExitReturns]_vars

\* t1 went through all its events and its error shut the group down; t2
\* has ended with an error, "Task finished" is written for it, and its
\* runTask has applied the result inside the critical section while t2 is
\* still counted and the done channel open.
C28_Witness ==
    /\ task[1].pc = "done" /\ err = TaskErr("t1") /\ closing
    /\ task[2].pc = "recorded" /\ task[2].res = TaskErr("t2") /\ mu = 2
    /\ task[2].log = <<LogSpawned, LogFinished>>
    /\ running = 1 /\ done \notin closedChans

\* The threads that are between g.mu.Lock() and Unlock().
InCriticalSection ==
    {i \in Slots : task[i].pc \in {"spawnLocked", "exitLocked", "recorded"}}
    \cup (IF exitPc = "locked" THEN {ExitCaller} ELSE {})
    \cup (IF waitPc = "doneLocked" THEN {DoneCaller} ELSE {})

\* C29: at most one of Spawn, the completion handlers, Exit and Done is
\* inside its critical section, and it is the holder of g.mu; running,
\* closing, the result and the done channel change only in a step of the
\* holder that ends with Unlock; and g.mu is not held by a task whose body
\* is executing.
C29_LockProtectsState ==
    /\ [](/\ Cardinality(InCriticalSection) <= 1
          /\ InCriticalSection = (IF mu = Unlocked THEN {} ELSE {mu})
          /\ \A i \in Slots : task[i].pc \in {"counted", "body", "finished"} => mu # i)
    /\ [][(running' # running \/ closing' # closing \/ err' # err
             \/ done' # done \/ closedChans' # closedChans)
            => /\ mu # Unlocked /\ mu' = Unlocked
               /\ InCriticalSection = {mu}]_vars

\* t1 is inside the critical section of runTask while t2, whose body has
\* ended too, and Exit and Done callers are kept out.
C29_Witness ==
    /\ mu = 1 /\ task[1].pc = "exitLocked" /\ task[2].pc = "finished"
    /\ exitPc = "idle" /\ exitCalls = 0 /\ waitPc = "idle"
    /\ running = 2 /\ ~closing

\* C30: Complete is past its select only if the external scope or the
\* group's own scope is cancelled, also when the group is empty or idle;
\* with one of them cancelled, Wait's receive is not blocked when running
\* is 0, and Complete returns.
C30_CompleteWaitsForCancel ==
    /\ [](/\ sub.pc \in {"wait", "recv", "read", "ret", "returned"}
                => (ctxErr # NilErr \/ sub.ctxErr # NilErr)
          /\ (sub.pc = "select" /\ ctxErr = NilErr /\ sub.ctxErr = NilErr)
                => ~ENABLED SubSelect
          /\ (sub.pc = "recv" /\ sub.running = 0) => sub.waitCh \in sub.closedChans)
    /\ (sub.pc # "none" /\ (ctxErr # NilErr \/ sub.ctxErr # NilErr))
          ~> (sub.pc = "returned")

\* The only task of the subgroup has finished with no effect on the
\* group; neither scope is cancelled and Complete is still in its select.
C30_Witness ==
    /\ sub.pc = "select" /\ sub.running = 0 /\ sub.task[1].pc = "done"
    /\ sub.task[2].pc = "new" /\ ~sub.closing
    /\ ctxErr = NilErr /\ sub.ctxErr = NilErr /\ task[SubSlot].pc = "body"

\* The non-nil errors a task completion or an Exit call can hand to exit.
NonNilResults ==
    UNION {{TaskErr(TaskName(i)), PanicError(TaskName(i)), UnexpectedErr(TaskName(i))}
             : i \in Slots}
        \cup {Canceled, DeadlineExceeded, ExitErr}

\* C32: a non-nil terminal result is final: from the state in which the
\* result is some non-nil e, the result is e in every later state, whatever
\* task errors, captured panics, policy shutdowns and Exit calls follow.
C32_NonNilResultFinal ==
    /\ [](err \in NonNilResults \cup {NilErr})
    /\ \A e \in NonNilResults : [](err = e => [](err = e))

\* The result is t1's error; Exit(ExitErr) holds the lock and t2 has
\* finished with its own error and waits for the lock.
C32_Witness ==
    /\ err = TaskErr(TaskName(1)) /\ closing
    /\ exitPc = "locked" /\ exitArg = ExitErr
    /\ task[2].pc = "finished" /\ task[2].res = TaskErr(TaskName(2))

\* C33: when the context given to NewGroup ends, the group's scope is done
\* with the same error while closing, the result and the count of
\* g.cancel() calls stay as they were; a task that then finishes with the
\* scope's error while the group is not closing has that error recorded as
\* the result and makes the group closing.
C33_OutsideCancelIsNotShutdown ==
    /\ [][(parentErr = NilErr /\ parentErr' # NilErr) =>
            /\ ctxErr' = (IF ctxErr = NilErr THEN parentErr' ELSE ctxErr)
            /\ UNCHANGED <<closing, err, cancelCalls, running>>]_vars
    /\ [][\A i \in Slots :
            (Finishes(i) /\ parentErr # NilErr /\ ~closing /\ task[i].res = ctxErr) =>
                /\ err' = ctxErr /\ err' # NilErr
                /\ closing' /\ cancelCalls' = 1 /\ ctxErr' = ctxErr]_vars

\* The parent context was cancelled, the group is not closing, and t1 has
\* returned ctx.Err() and holds the lock to apply its completion.
C33_Witness ==
    /\ parentErr = Canceled /\ ctxErr = Canceled /\ ~closing /\ err = NilErr
    /\ task[1].pc = "exitLocked" /\ task[1].res = Canceled /\ mu = 1

\* Holders of g.mu that are inside Group.exit's caller: a completion
\* handler or Exit, about to write the result.
ResultWriters ==
    {i \in Slots : task[i].pc = "exitLocked"}
    \cup (IF exitPc = "locked" THEN {ExitCaller} ELSE {})

\* C34: the result is written only by the holder of the lock, Wait reads
\* it while holding the lock, and no completion handler or Exit call is in
\* its critical section while Wait is at its read of the result.
C34_ResultAccessLocked ==
    /\ [][err' # err => (mu \in ResultWriters /\ mu' = Unlocked)]_vars
    /\ [][WaitReturns => mu = DoneCaller]_vars
    /\ [](waitPc = "read" => ResultWriters = {})

\* The step in which Spawn counts a task on an idle group.
Rearms == running = 0 /\ running' = 1

\* C35: a closed channel stays closed; re-arming leaves the old channel
\* closed and makes g.done a new open one; a Wait holding a closed channel
\* is not blocked whatever the running count is, and returns.
C35_GateReplacedNotReclosed ==
    /\ [][closedChans \subseteq closedChans']_vars
    /\ [][Rearms => /\ done \in closedChans /\ done \in closedChans'
                    /\ done' # done /\ done' \notin closedChans']_vars
    /\ []((waitPc = "recv" /\ waitCh \in closedChans) => ENABLED WaitRecv)
    /\ ((waitPc = "recv" /\ waitCh \in closedChans) ~> (waitPc = "returned"))

\* Wait fetched the gate of the idle group before t1 was counted, and has
\* returned while t1 is running.
C35_Witness ==
    /\ waitPc = "returned" /\ waitSeen = {} /\ waitCh = 0
    /\ task[1].pc = "body" /\ running = 1 /\ done = 1 /\ done \notin closedChans

\* ---------------------------------------------------------------------
\* The group under tasks that return or panic and callers of Exit and
\* Wait, scheduled fairly: a goroutine that
\* can take a step takes it, sync.Mutex does not starve a waiter, and a
\* task body returns or panics once its scope is cancelled.
\* ---------------------------------------------------------------------
NextLive ==
    \/ \E i \in Slots : SpawnLock(i)
    \/ \E i \in Slots : SpawnCount(i)
    \/ \E i \in Slots : SpawnGo(i)
    \/ \E i \in Slots : TaskReturn(i)
    \/ \E i \in Slots : TaskPanics(i)
    \/ \E i \in Slots : Recover(i)
    \/ \E i \in Slots : RunTaskLock(i)
    \/ \E i \in Slots : RunTaskFinish(i)
    \/ ExitLock
    \/ ExitFinish
    \/ WaitLock
    \/ WaitDone
    \/ WaitRecv
    \/ WaitReturn

LiveSpec ==
    /\ Init /\ [][NextLive]_vars
    /\ \A i \in Slots :
          /\ WF_vars(SpawnCount(i)) /\ WF_vars(SpawnGo(i))
          /\ WF_vars(ScopeCancelled /\ (TaskReturn(i) \/ TaskPanics(i)))
          /\ WF_vars(Recover(i))
          /\ SF_vars(RunTaskLock(i)) /\ WF_vars(RunTaskFinish(i))
    /\ WF_vars(ExitFinish)
    /\ WF_vars(WaitDone) /\ WF_vars(WaitRecv) /\ WF_vars(WaitReturn)

\* A shutdown is under way: the group is closing, or an Exit call or a
\* completion that shuts the group down (an error, a captured panic, a nil
\* return under Exit or Fail) is about to be applied.
ShutdownTriggered ==
    \/ closing
    \/ exitPc = "locked"
    \/ \E i \in Slots :
          \/ task[i].pc = "panicking"
          \/ /\ task[i].pc \in {"finished", "exitLocked"}
             /\ (task[i].res # NilErr \/ task[i].onExit \in {"Exit", "Fail"})

\* C38: after a shutdown is triggered the group reaches closing with
\* running 0, and a Wait blocked on the gate returns.
C38_ShutdownCompletes ==
    /\ ShutdownTriggered ~> (closing /\ running = 0)
    /\ (ShutdownTriggered /\ waitPc = "recv") ~> (waitPc = "returned")

\* t1 has panicked while t2 is running and Wait is blocked on the gate
\* that covers both.
C38_Witness ==
    /\ task[1].pc = "panicking" /\ task[2].pc = "body" /\ ~closing
    /\ waitPc = "recv" /\ waitSeen = {1, 2} /\ waitCh \notin closedChans

\* C37: when Complete returns from a subgroup that is closing with a nil
\* result while the parent's scope is not cancelled, the subgroup's task
\* in the parent finishes with nil; its completion then leaves the parent
\* as it was under Continue, shuts it down with nil under Exit, and
\* records "task <name> terminated unexpectedly" under Fail.
C37_NilSubgroupFollowsPolicy ==
    [][/\ (CompleteReturns /\ sub.closing /\ sub.err = NilErr /\ ctxErr = NilErr)
            => (task'[SubSlot].pc = "finished" /\ task'[SubSlot].res = NilErr)
       /\ (Finishes(SubSlot) /\ sub.pc = "returned" /\ sub.closing
             /\ task[SubSlot].res = NilErr /\ err = NilErr)
            => CASE task[SubSlot].onExit = "Continue" ->
                       UNCHANGED <<err, closing, ctxErr, cancelCalls>>
                 [] task[SubSlot].onExit = "Exit" ->
                       err' = NilErr /\ closing' /\ ScopeCancelled'
                 [] task[SubSlot].onExit = "Fail" ->
                       /\ err' = UnexpectedErr(TaskName(SubSlot))
                       /\ closing' /\ ScopeCancelled']_vars

\* The subgroup was shut down with nil by a task of its own, Complete has
\* returned nil, and the parent's handler of the Fail-policy task holds
\* the lock while the parent's scope is live.
C37_Witness ==
    /\ sub.pc = "returned" /\ sub.closing /\ sub.err = NilErr /\ sub.waitRes = NilErr
    /\ task[SubSlot].pc = "exitLocked" /\ task[SubSlot].res = NilErr
    /\ task[SubSlot].onExit = "Fail" /\ ctxErr = NilErr /\ ~closing

\* C39: errChan receives at most one error in an Execute call (every send
\* is followed by the close, so it is closed at most once): a send finds
\* the channel empty, the error stays in it until Execute receives and
\* returns it, and nothing is sent after that; once the channel holds an
\* error no command body is started or continued, whatever the depth of
\* deps calls and whether or not ctx is cancelled.
C39_OneErrorThenStop ==
    /\ [](Len(exe.errChan) <= 1)
    /\ [](exe.pc = "returned" => exe.errChan = <<>>)
    /\ [][Len(exe'.errChan) > Len(exe.errChan) =>
            (exe.errChan = <<>> /\ exe.pc = "running" /\ exe'.pc = "running")]_vars
    /\ [][Len(exe.errChan) = 1 =>
            /\ \/ exe'.errChan = exe.errChan
               \/ /\ exe'.errChan = <<>> /\ exe'.pc = "returned"
                  /\ exe'.result = Head(exe.errChan)
            /\ exe'.started = exe.started
            /\ exe'.report = exe.report
            /\ Len(exe'.frames) <= Len(exe.frames)]_vars
    /\ [][exe.pc = "returned" => exe' = exe]_vars

\* With ctx cancelled, the worker of a deps call two levels below the
\* top-level one has sent the error; the two outer workers are inside
\* their commands.
C39_Witness ==
    /\ exe.pc = "running" /\ Len(exe.frames) = 3 /\ Len(exe.errChan) = 1
    /\ exe.ctxErr = Canceled /\ exe.frames[3].w = "exited"
    /\ exe.frames[1].w = "cmd" /\ exe.frames[2].w = "cmd"

\* ---------------------------------------------------------------------
\* Spawn calls only: callers of the group's Spawn run concurrently with
\* each other and with the caller of the subgroup's Spawn.
\* ---------------------------------------------------------------------
NextIDs ==
    \/ \E i \in Slots : SpawnLock(i)
    \/ \E i \in Slots : SpawnCount(i)
    \/ \E i \in Slots : SpawnGo(i)
    \/ SubNewGroup
    \/ \E j \in SubSlots : SubSpawn(j)
    \/ \E j \in SubSlots : SubSpawnGo(j)

IDSpec == Init /\ [][NextIDs]_vars

\* C40: the ids allocated by the Spawn calls of the group and of the
\* subgroup are pairwise distinct and strictly increasing in allocation
\* order, each allocation taking the next value of the counter.
C40_TaskIDsIncrease ==
    /\ [](\A k, l \in 1..Len(taskIDs) : k < l => taskIDs[k].id < taskIDs[l].id)
    /\ [](\A k \in 1..Len(taskIDs) : taskIDs[k].id <= nextTaskID)
    /\ [][taskIDs' # taskIDs =>
            /\ Len(taskIDs') = Len(taskIDs) + 1
            /\ SubSeq(taskIDs', 1, Len(taskIDs)) = taskIDs
            /\ taskIDs'[Len(taskIDs')].id = nextTaskID'
            /\ nextTaskID' > nextTaskID]_vars

\* Spawn was called for t2 before the subgroup's first task was spawned
\* and took its id after it: the ids follow the order of allocation, in
\* which the two groups alternate.
C40_Witness ==
    /\ Len(taskIDs) = 4
    /\ taskIDs[1].group = "g" /\ taskIDs[2].group = "sub"
    /\ taskIDs[3] = [group |-> "g", slot |-> 2, id |-> 3]
    /\ taskIDs[4] = [group |-> "sub", slot |-> 2, id |-> 4]

\* ---------------------------------------------------------------------
\* NewSubgroup under a parent that may be shut down or cancelled at any
\* time: the caller does call NewSubgroup and gets the lock, which an Exit
\* call in progress releases; Spawn runs to its end, and the spawned
\* goroutine runs up to its send on ch, which the caller, by then at <-ch,
\* receives.
\* ---------------------------------------------------------------------
HandoffSpec ==
    /\ SubExitSpec
    /\ SF_vars(SpawnLock(SubSlot))
    /\ WF_vars(SpawnCount(SubSlot)) /\ WF_vars(SpawnGo(SubSlot))
    /\ WF_vars(SubNewGroup)
    /\ WF_vars(ExitFinish)

\* The step in which ch <- g meets <-ch and NewSubgroup returns g.
HandsOver == sub.pc = "none" /\ sub'.pc # "none"

\* C36: NewSubgroup returns in every interleaving: its Spawn is not
\* refused by a closing or cancelled parent, the send of the spawned task
\* is never blocked, and the group is delivered; a group delivered when
\* the parent's scope was cancelled has a cancelled scope; after the
\* delivery no second one is possible.
C36_SubgroupHandoff ==
    /\ []((task[SubSlot].pc = "new" /\ mu = Unlocked) => ENABLED SpawnLock(SubSlot))
    /\ []((task[SubSlot].pc = "body" /\ sub.pc = "none") => ENABLED SubNewGroup)
    /\ <>(sub.pc # "none")
    /\ [][HandsOver => /\ task[SubSlot].pc = "body"
                       /\ ((closing \/ ctxErr # NilErr) => SubCtxErr' # NilErr)
                       /\ (ctxErr = NilErr => SubCtxErr' = NilErr)]_vars
    /\ [](sub.pc # "none" => ~ENABLED SubNewGroup)
    /\ [][sub.pc # "none" => sub'.pc # "none"]_vars

\* The parent was shut down by Exit and NewSubgroup has returned a group
\* whose scope is cancelled and whose Complete has not moved yet.
C36_Witness ==
    /\ sub.pc = "select" /\ sub.running = 0 /\ ~sub.closing
    /\ closing /\ exitCalls = 1 /\ exitPc = "idle" /\ ctxErr = Canceled
    /\ SubCtxErr = Canceled /\ task[SubSlot].pc = "body"

\* ---------------------------------------------------------------------
\* retry.Do (retry.go)
\* ---------------------------------------------------------------------
\* RetryableError{err: e}
RetryableError(e) == [kind |-> "retryable", err |-> e]

\* Retryable(err)
Retryable(e) == IF e = NilErr THEN NilErr ELSE RetryableError(e)

\* errors.WithStack(err): nil for nil, else a wrapper that unwraps to err
WithStack(e) == IF e = NilErr THEN NilErr ELSE [kind |-> "withStack", err |-> e]

\* errors.Unwrap on the errors fn returns: RetryableError.Unwrap and the
\* wrapper of WithStack give the wrapped error, other errors nothing.
UnwrapErr(e) == IF e.kind \in {"retryable", "withStack"} THEN e.err ELSE NilErr

\* errors.As(err, &r2): the first RetryableError in err's chain, NilErr
\* when there is none (As returns false).
RECURSIVE As(_)
As(e) ==
    IF e = NilErr THEN NilErr
    ELSE IF e.kind = "retryable" THEN e
    ELSE As(UnwrapErr(e))

\* errors.Is(err, target)
RECURSIVE Is(_, _)
Is(e, target) ==
    IF e = NilErr \/ target = NilErr THEN e = target
    ELSE e = target \/ Is(UnwrapErr(e), target)

\* The errors fn wraps, and what fn may return: nil, an error that is not
\* retryable, retryable errors, among them ones whose cause is a context
\* error, a retryable error inside another wrapper, and RetryableError{},
\* the zero value of the exported type, whose cause is nil.
ErrFatal == [kind |-> "error", arg |-> "fatal"]
ErrA == [kind |-> "error", arg |-> "a"]
ErrB == [kind |-> "error", arg |-> "b"]
FnResults ==
    {NilErr, ErrFatal, Retryable(ErrA), Retryable(ErrB), Retryable(Canceled),
     Retryable(DeadlineExceeded), WithStack(Retryable(ErrA)), RetryableError(NilErr)}

\* One round of the loop from fn() to the first read of ctx.Err(), for
\* fn's result e, that reading ctxE and r.err r: where Do goes ("returned"
\* with val, "matched" when r2.err is the context's error, else r = r2
\* and "select", or "panicked" in r.err.Error() when r.err is nil), and
\* the new r.err and r2.err.
DoIteration(ctxE, r, e) ==
    LET r2 == As(e)
    IN IF r2 = NilErr THEN [pc |-> "returned", val |-> e, r |-> r, r2 |-> NilErr]
       ELSE IF Is(r2.err, ctxE)
            THEN [pc |-> "matched", val |-> NilErr, r |-> r, r2 |-> r2.err]
       ELSE [pc |-> IF r2.err = NilErr THEN "panicked" ELSE "select",
             val |-> NilErr, r |-> r2.err, r2 |-> r2.err]

\* What Do returns when r2.err matched the context's error, for the second
\* reading ctxE of ctx.Err(), r.err r and r2.err r2.
DoMatched(ctxE, r, r2) ==
    IF Is(ctxE, DeadlineExceeded) /\ r # NilErr THEN r ELSE r2

\* Do(ctx, retryAfter, fn) is called; ctx may have ended already.
Do ==
    /\ rt.pc = "idle"
    /\ \E c \in {NilErr, Canceled, DeadlineExceeded} :
         rt' = [rt EXCEPT !.pc = "call", !.ctxErr = c]
    /\ UNCHANGED <<mu, groupVars, parentErr, sub, exe, idVars, task, exitVars, waitVars>>

\* ctx is cancelled or its deadline passes while Do runs.
RetryCtxEnds ==
    /\ rt.pc \in {"call", "matched", "select"}
    /\ rt.ctxErr = NilErr
    /\ \E c \in {Canceled, DeadlineExceeded} : rt' = [rt EXCEPT !.ctxErr = c]
    /\ UNCHANGED <<mu, groupVars, parentErr, sub, exe, idVars, task, exitVars, waitVars>>

\* fn() is called and its result handled up to the first read of
\* ctx.Err(): Do returns a result that is not retryable, or finds r2.err
\* to be the context's error, or sets r = r2 and goes to the select; on
\* the way r.err.Error() panics when r.err is nil and the panic leaves Do.
DoCall ==
    /\ rt.pc = "call"
    /\ Len(rt.results) < MaxCalls
    /\ \E e \in FnResults :
         LET it == DoIteration(rt.ctxErr, rt.r, e)
         IN rt' = [rt EXCEPT !.results = Append(@, e),
                             !.r = it.r,
                             !.r2 = it.r2,
                             !.pc = it.pc,
                             !.result = it.val]
    /\ UNCHANGED <<mu, groupVars, parentErr, sub, exe, idVars, task, exitVars, waitVars>>

\* r2.err was the context's error: Do reads ctx.Err() again and returns
\* r.err or r2.err.
DoReturnMatched ==
    /\ rt.pc = "matched"
    /\ rt' = [rt EXCEPT !.pc = "returned",
                        !.result = DoMatched(rt.ctxErr, rt.r, rt.r2)]
    /\ UNCHANGED <<mu, groupVars, parentErr, sub, exe, idVars, task, exitVars, waitVars>>

\* The select takes <-ctx.Done().
DoSelectCtx ==
    /\ rt.pc = "select"
    /\ rt.ctxErr # NilErr
    /\ rt' = [rt EXCEPT !.pc = "returned",
                        !.result = IF Is(rt.ctxErr, DeadlineExceeded) THEN rt.r
                                   ELSE WithStack(rt.ctxErr)]
    /\ UNCHANGED <<mu, groupVars, parentErr, sub, exe, idVars, task, exitVars, waitVars>>

\* The select takes <-time.After(retryAfter): the loop goes round.
DoSelectTimer ==
    /\ rt.pc = "select"
    /\ rt' = [rt EXCEPT !.pc = "call"]
    /\ UNCHANGED <<mu, groupVars, parentErr, sub, exe, idVars, task, exitVars, waitVars>>

NextRetry ==
    \/ Do
    \/ RetryCtxEnds
    \/ DoCall
    \/ DoReturnMatched
    \/ DoSelectCtx
    \/ DoSelectTimer

RetrySpec == Init /\ [][NextRetry]_vars

\* The step in which Do returns, and the step in which fn is called.
DoReturns == rt.pc # "returned" /\ rt'.pc = "returned"
CallsFn == Len(rt'.results) = Len(rt.results) + 1

\* Every result of fn so far is, or wraps, a RetryableError.
AllRetryable(results) == \A k \in 1..Len(results) : As(results[k]) # NilErr

\* The cause of the k-th retryable result.
CauseOf(results, k) == As(results[k]).err

\* C31: fn is called only while every earlier result was retryable, a
\* result that is not retryable is returned at once and fn is not called
\* after Do returned; with retryable results only, Do ends only by
\* returning, and only when ctx has ended: on cancellation with the
\* context's error, when the deadline was exceeded with the cause of the
\* last retryable error.
C31_RetryUntilFinalOrContextEnd ==
    /\ [](rt.pc # "panicked")
    /\ [][/\ CallsFn => (rt.pc = "call" /\ AllRetryable(rt.results))
          /\ (CallsFn /\ As(rt'.results[Len(rt'.results)]) = NilErr)
                => (rt'.pc = "returned" /\ rt'.result = rt'.results[Len(rt'.results)])
          /\ (rt.pc = "returned" => rt' = rt)
          /\ (DoReturns /\ AllRetryable(rt'.results))
                => (/\ rt.ctxErr # NilErr
                    /\ (rt.ctxErr = Canceled => Is(rt'.result, Canceled))
                    /\ (rt.ctxErr = DeadlineExceeded =>
                          rt'.result = CauseOf(rt'.results, Len(rt'.results))))]_vars
====
